---- MODULE Spec2Model ----
(***************************************************************************)
(* Query safety and controlled execution layer of db-analyzer-mcp:         *)
(* validateQuery / enforceLimit (security/sql-validator.ts),               *)
(* validateIdentifier(s) (security/identifier.ts) and the tool handlers    *)
(* dbQuery, dbExplain, dbRunFile, dbExport, dbExportBatch (tools/*.ts).    *)
(*                                                                         *)
(* SQL text is modelled as TLA+ strings, character by character; the       *)
(* regular expressions of the source are written out as operators.         *)
(***************************************************************************)
EXTENDS Integers, Sequences, FiniteSets, TLC

VARIABLES
    tool,               \* which handler this call runs
    pc,                 \* the handler's position: an await it is suspended at, or "done"
    sql,                \* the caller's statement (input.sql, or the content of the SQL file)
    allowedStatements,  \* config.security.allowedStatements
    input,              \* the other fields of the tool input and of the environment it reads
    validation,         \* the ValidationResult of this call, NoResult before it is computed
    stmt,               \* the statement the handler is about to hand to the driver
    connected,          \* getDriverWithConnection has been called for this call
    issued,             \* the driver.query / driver.explain calls made, in order
    file,               \* content of the output file, NoFile while it does not exist
    writes,             \* the writeFileSync / appendFileSync calls made, in order
    result,             \* the ToolResult returned, NoResult while the call runs
    job                 \* the locals of dbExportBatch (the export job state)

vars == <<tool, pc, sql, allowedStatements, input, validation, stmt, connected,
          issued, file, writes, result, job>>

(***************************************************************************)
(* Characters and JavaScript string primitives                             *)
(***************************************************************************)
Lowers == "abcdefghijklmnopqrstuvwxyz"
Uppers == "ABCDEFGHIJKLMNOPQRSTUVWXYZ"
Digits == "0123456789"

CharAt(s, i) == IF i >= 1 /\ i <= Len(s) THEN SubSeq(s, i, i) ELSE ""

CharsOf(s) == {SubSeq(s, i, i) : i \in 1..Len(s)}

LowerSet == CharsOf(Lowers)
DigitSet == CharsOf(Digits)
\* \w of a JavaScript regular expression without the u flag
WordSet == CharsOf(Lowers) \cup CharsOf(Uppers) \cup DigitSet \cup {"_"}
\* \s of a JavaScript regular expression, restricted to the ASCII alphabet
SpaceSet == {" ", "\t", "\n", "\r"}

IsSpace(c) == c \in SpaceSet
IsWordChar(c) == c \in WordSet
IsDigit(c) == c \in DigitSet

UpperOf == [c \in LowerSet |-> SubSeq(Uppers, CHOOSE i \in 1..26 : SubSeq(Lowers, i, i) = c,
                                              CHOOSE i \in 1..26 : SubSeq(Lowers, i, i) = c)]

ToUpperChar(c) == IF c \in LowerSet THEN UpperOf[c] ELSE c

RECURSIVE toUpperCase(_)
toUpperCase(s) ==
    IF s = "" THEN ""
    ELSE ToUpperChar(SubSeq(s, 1, 1)) \o toUpperCase(SubSeq(s, 2, Len(s)))

\* smallest index >= i holding a non-whitespace character, Len(s)+1 if none
SkipSpaces(s, i) ==
    LET rest == {j \in i..Len(s) : ~IsSpace(CharAt(s, j))}
    IN  IF rest = {} THEN Len(s) + 1 ELSE CHOOSE j \in rest : \A k \in rest : j <= k

\* String.prototype.trimStart / trim
trimStart(s) == SubSeq(s, SkipSpaces(s, 1), Len(s))

trim(s) ==
    LET keep == {j \in 1..Len(s) : ~IsSpace(CharAt(s, j))}
    IN  IF keep = {} THEN ""
        ELSE SubSeq(s, CHOOSE j \in keep : \A k \in keep : j <= k,
                       CHOOSE j \in keep : \A k \in keep : j >= k)

\* s.replace(/\s+/g, ' ')
RECURSIVE CollapseSpaces(_)
CollapseSpaces(s) ==
    IF s = "" THEN ""
    ELSE IF IsSpace(SubSeq(s, 1, 1))
         THEN " " \o CollapseSpaces(SubSeq(s, SkipSpaces(s, 1), Len(s)))
         ELSE SubSeq(s, 1, 1) \o CollapseSpaces(SubSeq(s, 2, Len(s)))

startsWith(s, p) == Len(p) <= Len(s) /\ SubSeq(s, 1, Len(p)) = p

endsWith(s, p) == Len(p) <= Len(s) /\ SubSeq(s, Len(s) - Len(p) + 1, Len(s)) = p

MatchAt(s, i, p) == i >= 1 /\ i + Len(p) - 1 <= Len(s) /\ SubSeq(s, i, i + Len(p) - 1) = p

includes(s, p) == \E i \in 1..(Len(s) + 1) : MatchAt(s, i, p)

CountChar(s, c) == Cardinality({i \in 1..Len(s) : SubSeq(s, i, i) = c})

RECURSIVE join(_, _)
join(list, sep) ==
    IF Len(list) = 0 THEN ""
    ELSE IF Len(list) = 1 THEN list[1]
    ELSE list[1] \o sep \o join(Tail(list), sep)

(***************************************************************************)
(* security/sql-validator.ts                                               *)
(***************************************************************************)
BLOCKED_KEYWORDS ==
    << "INSERT", "UPDATE", "DELETE", "DROP", "ALTER", "TRUNCATE", "CREATE",
       "GRANT", "REVOKE", "EXECUTE", "CALL", "COPY", "VACUUM", "REINDEX",
       "CLUSTER", "COMMENT", "SECURITY", "OWNER", "SET ROLE", "RESET" >>

ALLOWED_PREFIXES == << "SELECT", "EXPLAIN", "SHOW", "WITH" >>

MaxQueryLength == 100000

\* new RegExp(`\\b${keyword}\\b`, 'i').test(s): every keyword begins and ends
\* with a word character, so \b asks for a non-word neighbour on both sides
KeywordCaseSensitive(s, keyword) ==
    \E i \in 1..Len(s) :
        /\ MatchAt(s, i, keyword)
        /\ ~IsWordChar(CharAt(s, i - 1))
        /\ ~IsWordChar(CharAt(s, i + Len(keyword)))

\* the keyword looked for without the word boundaries
KeywordTestAnywhere(s, keyword) == includes(toUpperCase(s), keyword)
KeywordTest(s, keyword) == KeywordCaseSensitive(toUpperCase(s), keyword)

\* /;\s*(INSERT|UPDATE|DELETE|DROP|ALTER|TRUNCATE|CREATE)/i
InjectionWords == << "INSERT", "UPDATE", "DELETE", "DROP", "ALTER", "TRUNCATE", "CREATE" >>

SemicolonThenWrite(u) ==
    \E i \in 1..Len(u) :
        /\ CharAt(u, i) = ";"
        /\ \E k \in 1..Len(InjectionWords) : MatchAt(u, SkipSpaces(u, i + 1), InjectionWords[k])

\* /A\s+B/i on an upper-cased subject
WordsApart(u, a, b) ==
    \E i \in 1..Len(u) :
        /\ MatchAt(u, i, a)
        /\ IsSpace(CharAt(u, i + Len(a)))
        /\ MatchAt(u, SkipSpaces(u, i + Len(a)), b)

\* /COPY\s+.*\s+TO/i ; the subject is a normalized statement, so it holds no
\* line terminator that "." would refuse
CopyTo(u) ==
    \E i \in 1..Len(u) :
        /\ MatchAt(u, i, "COPY")
        /\ IsSpace(CharAt(u, i + 4))
        /\ \E k \in (i + 6)..Len(u) : IsSpace(CharAt(u, k - 1)) /\ MatchAt(u, k, "TO")

DangerousSubstrings ==
    << "LOAD_FILE", "PG_READ_FILE", "PG_WRITE_FILE", "LO_IMPORT", "LO_EXPORT",
       "PG_TERMINATE_BACKEND", "PG_CANCEL_BACKEND" >>

\* DANGEROUS_PATTERNS.some(pattern => pattern.test(normalized)), all with /i
DANGEROUS_PATTERNS(normalized) ==
    LET u == toUpperCase(normalized)
    IN  \/ SemicolonThenWrite(u)
        \/ WordsApart(u, "INTO", "OUTFILE")
        \/ WordsApart(u, "INTO", "DUMPFILE")
        \/ \E k \in 1..Len(DangerousSubstrings) : includes(u, DangerousSubstrings[k])
        \/ CopyTo(u)

\* sql.trim().replace(/\s+/g, ' ')
NormalizeNoTrim(s) == CollapseSpaces(s)
Normalize(s) == CollapseSpaces(trim(s))

Rejected(msg) == [valid |-> FALSE, error |-> msg]
Accepted(normalized) == [valid |-> TRUE, normalized |-> normalized]

startsWithAllowed(upperNormalized, allowed) ==
    \E k \in 1..Len(allowed) : startsWith(upperNormalized, allowed[k])

\* index of the first blocked keyword found, 0 if none
FirstBlockedCaseSensitive(normalized) ==
    LET hit == {k \in 1..Len(BLOCKED_KEYWORDS) : KeywordCaseSensitive(normalized, BLOCKED_KEYWORDS[k])}
    IN  IF hit = {} THEN 0 ELSE CHOOSE k \in hit : \A j \in hit : k <= j

FirstBlocked(normalized) ==
    LET upperNormalized == toUpperCase(normalized)
        hit == {k \in 1..Len(BLOCKED_KEYWORDS) : KeywordTest(upperNormalized, BLOCKED_KEYWORDS[k])}
    IN  IF hit = {} THEN 0 ELSE CHOOSE k \in hit : \A j \in hit : k <= j

\* semiCount > 1 || (semiCount === 1 && !normalized.endsWith(';'))
MultipleStatementsAnySemicolon(normalized) == CountChar(normalized, ";") > 1
MultipleStatements(normalized) ==
    LET semiCount == CountChar(normalized, ";")
    IN  semiCount > 1 \/ (semiCount = 1 /\ ~endsWith(normalized, ";"))

\* validateQuery with the blocked-keyword loop placed before the prefix check
validateQueryKeywordsFirst(s, allowed) ==
    IF s = "" THEN Rejected("Query must be a non-empty string")
    ELSE
    LET normalized == Normalize(s)
        upperNormalized == toUpperCase(normalized)
        blocked == FirstBlocked(normalized)
    IN  IF Len(normalized) = 0 THEN Rejected("Query cannot be empty")
        ELSE IF Len(normalized) > MaxQueryLength THEN Rejected("Query too long (max 100KB)")
        ELSE IF blocked # 0
            THEN Rejected("Blocked keyword detected: " \o BLOCKED_KEYWORDS[blocked]
                          \o ". Only read operations are allowed.")
        ELSE IF ~startsWithAllowed(upperNormalized, allowed)
            THEN Rejected("Query must start with one of: " \o join(allowed, ", "))
        ELSE IF DANGEROUS_PATTERNS(normalized)
            THEN Rejected("Potentially dangerous SQL pattern detected")
        ELSE IF MultipleStatements(normalized)
            THEN Rejected("Multiple statements not allowed. Execute one query at a time.")
        ELSE Accepted(normalized)
validateQuery(s, allowed) ==
    IF s = "" THEN Rejected("Query must be a non-empty string")
    ELSE
    LET normalized == Normalize(s)
        upperNormalized == toUpperCase(normalized)
        blocked == FirstBlocked(normalized)
    IN  IF Len(normalized) = 0 THEN Rejected("Query cannot be empty")
        ELSE IF Len(normalized) > MaxQueryLength THEN Rejected("Query too long (max 100KB)")
        ELSE IF ~startsWithAllowed(upperNormalized, allowed)
            THEN Rejected("Query must start with one of: " \o join(allowed, ", "))
        ELSE IF blocked # 0
            THEN Rejected("Blocked keyword detected: " \o BLOCKED_KEYWORDS[blocked]
                          \o ". Only read operations are allowed.")
        ELSE IF DANGEROUS_PATTERNS(normalized)
            THEN Rejected("Potentially dangerous SQL pattern detected")
        ELSE IF MultipleStatements(normalized)
            THEN Rejected("Multiple statements not allowed. Execute one query at a time.")
        ELSE Accepted(normalized)

(***************************************************************************)
(* Numbers in text: template literals `${n}` and parseInt(digits, 10)      *)
(***************************************************************************)
RECURSIVE NatToString(_)
NatToString(n) ==
    IF n < 10 THEN SubSeq(Digits, n + 1, n + 1)
    ELSE NatToString(n \div 10) \o SubSeq(Digits, (n % 10) + 1, (n % 10) + 1)

NumberToString(n) == IF n < 0 THEN "-" \o NatToString(0 - n) ELSE NatToString(n)

DigitValue(c) == CHOOSE d \in 0..9 : SubSeq(Digits, d + 1, d + 1) = c

RECURSIVE parseInt(_)
parseInt(ds) ==
    IF Len(ds) = 0 THEN 0
    ELSE 10 * parseInt(SubSeq(ds, 1, Len(ds) - 1)) + DigitValue(SubSeq(ds, Len(ds), Len(ds)))

\* smallest index >= i holding a non-digit, Len(s)+1 if none: the end of \d*
SkipDigits(s, i) ==
    LET rest == {j \in i..Len(s) : ~IsDigit(CharAt(s, j))}
    IN  IF rest = {} THEN Len(s) + 1 ELSE CHOOSE j \in rest : \A k \in rest : j <= k

\* s.replace(/;$/, '')
dropTrailingSemicolon(s) == IF endsWith(s, ";") THEN SubSeq(s, 1, Len(s) - 1) ELSE s

(***************************************************************************)
(* enforceLimit, security/sql-validator.ts                                 *)
(***************************************************************************)
\* the start of the first match of /LIMIT\s+(\d+)/ in u, 0 if there is none
LimitMatch(u) ==
    LET at == {i \in 1..Len(u) :
                   /\ MatchAt(u, i, "LIMIT")
                   /\ IsSpace(CharAt(u, i + 5))
                   /\ IsDigit(CharAt(u, SkipSpaces(u, i + 5)))}
    IN  IF at = {} THEN 0 ELSE CHOOSE i \in at : \A j \in at : i <= j

enforceLimit(s, maxLimit) ==
    LET normalized == trim(s)
        upperNormalized == toUpperCase(normalized)
        m == LimitMatch(upperNormalized)
        from == SkipSpaces(upperNormalized, m + 5)
        to == SkipDigits(upperNormalized, from)
        existingLimit == parseInt(SubSeq(upperNormalized, from, to - 1))
        withoutSemi == dropTrailingSemicolon(normalized)
    IN  IF includes(upperNormalized, " LIMIT ")
        THEN IF m # 0 /\ existingLimit > maxLimit
             THEN SubSeq(normalized, 1, m - 1) \o "LIMIT " \o NumberToString(maxLimit)
                  \o SubSeq(normalized, to, Len(normalized))
             ELSE normalized
        ELSE IF startsWith(upperNormalized, "EXPLAIN") THEN normalized
        ELSE IF startsWith(upperNormalized, "SHOW") THEN normalized
        ELSE IF startsWith(upperNormalized, "WITH")
            THEN withoutSemi \o " LIMIT " \o NumberToString(maxLimit)
        ELSE withoutSemi \o " LIMIT " \o NumberToString(maxLimit)

(***************************************************************************)
(* security/identifier.ts                                                  *)
(***************************************************************************)
MAX_IDENTIFIER_LENGTH == 63

\* /^[a-zA-Z_][a-zA-Z0-9_]*$/
VALID_IDENTIFIER(s) ==
    /\ Len(s) >= 1
    /\ IsWordChar(CharAt(s, 1)) /\ ~IsDigit(CharAt(s, 1))
    /\ \A i \in 1..Len(s) : IsWordChar(CharAt(s, i))

IdRejected(msg) == [valid |-> FALSE, error |-> msg]
IdAccepted(name) == [valid |-> TRUE, sanitized |-> name]

validateIdentifier(identifier, type) ==
    IF identifier = "" THEN IdRejected(type \o " name must be a non-empty string")
    ELSE
    LET trimmed == trim(identifier)
    IN  IF Len(trimmed) = 0 THEN IdRejected(type \o " name cannot be empty")
        ELSE IF Len(trimmed) > MAX_IDENTIFIER_LENGTH
            THEN IdRejected(type \o " name too long (max 63 characters)")
        ELSE IF ~VALID_IDENTIFIER(trimmed)
            THEN IdRejected("Invalid " \o type \o " name \"" \o trimmed
                            \o "\". Only letters, numbers, and underscores allowed. "
                            \o "Must start with a letter or underscore.")
        ELSE IdAccepted(trimmed)

\* the first rejection in list order, else the names joined
validateIdentifiers(identifiers, type) ==
    LET bad == {k \in 1..Len(identifiers) : ~validateIdentifier(identifiers[k], type).valid}
    IN  IF bad = {} THEN IdAccepted(join(identifiers, ", "))
        ELSE validateIdentifier(identifiers[CHOOSE k \in bad : \A j \in bad : k <= j], type)

\* c.replace(/"/g, '""')
RECURSIVE doubleQuotes(_)
doubleQuotes(s) ==
    IF s = "" THEN ""
    ELSE (IF SubSeq(s, 1, 1) = "\"" THEN "\"\"" ELSE SubSeq(s, 1, 1))
         \o doubleQuotes(SubSeq(s, 2, Len(s)))

(***************************************************************************)
(* Helpers of the tool handlers, tools/query.ts and tools/extras.ts        *)
(***************************************************************************)
NoResult == [pending |-> TRUE]
NoJob == [none |-> TRUE]
NoFile == [exists |-> FALSE, content |-> ""]

\* utils/result.ts as the handlers use it: error(message, details?) and success(data)
error(message) == [ok |-> FALSE, error |-> message]
errorWith(message, details) == [ok |-> FALSE, error |-> message, details |-> details]

min(a, b) == IF a <= b THEN a ELSE b
max(a, b) == IF a >= b THEN a ELSE b

\* fs.writeFileSync / fs.appendFileSync on the one output file of the call
writeFileSync(f, data) == [exists |-> TRUE, content |-> data]
appendFileSync(f, data) == [exists |-> TRUE, content |-> f.content \o data]

\* rows of the exported relation: row i of the ordered result has id = i
Row(i) == [id |-> i]
ObjectKeys(row) == << "id" >>
JSONstringify(row) == "{\"id\":" \o NumberToString(row.id) \o "}"
\* JSON.stringify(row, null, 2) for one element of an array, at depth 1
JSONpretty(row) == "  {\n    \"id\": " \o NumberToString(row.id) \o "\n  }"

\* the driver on a stable relation of n rows: rows offset .. offset+limit-1
Executor(n, limit, offset) ==
    [k \in 1..max(0, min(limit, n - offset)) |-> Row(offset + k - 1)]

RECURSIVE joinMap(_, _, _)
\* rows.map(F).join(sep), F given by name
joinMap(rows, how, sep) ==
    LET one(r) == CASE how = "json"   -> JSONstringify(r)
                    [] how = "indent" -> "  " \o JSONstringify(r)
                    [] how = "pretty" -> JSONpretty(r)
                    [] how = "csv"    -> NumberToString(r.id)
    IN  IF Len(rows) = 0 THEN ""
        ELSE IF Len(rows) = 1 THEN one(rows[1])
        ELSE one(rows[1]) \o sep \o joinMap(Tail(rows), how, sep)

\* /\bORDER\s+BY\b/i.test(sql)
HasOrderBy(s) ==
    LET u == toUpperCase(s)
    IN  \E i \in 1..Len(u) :
            /\ MatchAt(u, i, "ORDER")
            /\ ~IsWordChar(CharAt(u, i - 1))
            /\ IsSpace(CharAt(u, i + 5))
            /\ MatchAt(u, SkipSpaces(u, i + 5), "BY")
            /\ ~IsWordChar(CharAt(u, SkipSpaces(u, i + 5) + 2))

\* where /\bLIMIT\s+\d+\s*(OFFSET\s+\d+)?/i matching at i ends (the index after
\* the match), 0 if it does not match at i
LimitClauseEnd(u, i) ==
    LET d1 == SkipSpaces(u, i + 5)
        w == SkipSpaces(u, SkipDigits(u, d1))
        d2 == SkipSpaces(u, w + 6)
    IN  IF /\ MatchAt(u, i, "LIMIT")
           /\ ~IsWordChar(CharAt(u, i - 1))
           /\ IsSpace(CharAt(u, i + 5))
           /\ IsDigit(CharAt(u, d1))
        THEN IF MatchAt(u, w, "OFFSET") /\ IsSpace(CharAt(u, w + 6)) /\ IsDigit(CharAt(u, d2))
             THEN SkipDigits(u, d2)
             ELSE w
        ELSE 0

RECURSIVE StripFrom(_, _, _)
StripFrom(s, u, i) ==
    IF i > Len(s) THEN ""
    ELSE IF LimitClauseEnd(u, i) # 0 THEN StripFrom(s, u, LimitClauseEnd(u, i))
    ELSE CharAt(s, i) \o StripFrom(s, u, i + 1)

\* sql.replace(/\bLIMIT\s+\d+\s*(OFFSET\s+\d+)?/gi, '').trim(), then
\* .replace(/;$/, '').trim()
BaseQuery(s) == trim(dropTrailingSemicolon(trim(StripFrom(s, toUpperCase(s), 1))))

\* `${baseQuery} LIMIT ${effectiveLimit} OFFSET ${offset}`
BatchQuery(baseQuery, effectiveLimit, offset) ==
    baseQuery \o " LIMIT " \o NumberToString(effectiveLimit)
              \o " OFFSET " \o NumberToString(offset)

\* the test `maxRows ? ... : ...`: maxRows is given and is not 0
MaxRowsGiven(inp) == "maxRows" \in DOMAIN inp
MaxRowsTruthy(inp) == "maxRows" \in DOMAIN inp /\ inp.maxRows # 0

\* maxRows ? Math.min(batchSize, maxRows - totalRows) : batchSize
EffectiveLimit(inp, totalRows) ==
    IF MaxRowsTruthy(inp) THEN min(inp.batchSize, inp.maxRows - totalRows) ELSE inp.batchSize

(***************************************************************************)
(* Bounds of the model and the inputs a call is made with                  *)
(***************************************************************************)
MaxData == 4        \* rows in the exported relation: 0 .. MaxData
MaxBatchSize == 2   \* input.batchSize: 1 .. MaxBatchSize
MaxRowCap == 3      \* input.maxRows: absent, or 0 .. MaxRowCap
MaxLimit == 2       \* input.limit of db_query, db_run_file, db_export: 0 .. MaxLimit

MaxExportLimit == 10000
DefaultMaxRowLimit == 10000

Tools == {"db_query", "db_explain", "db_run_file", "db_export", "db_export_batch"}

\* statements the handlers are called with
Statements ==
    { "SELECT a FROM t ORDER BY a",
      "select a\nfrom t order  by a limit 5 offset 2;",
      "SELECT a FROM t",
      "SELECT a FROM t ORDER BY a OFFSET 2",
      "SELECT a FROM (SELECT a FROM t LIMIT 1) s ORDER BY a",
      "WITH x AS (LIMIT 1DELETE FROM t RETURNING a) SELECT a FROM x ORDER BY a",
      "SELECT a FROM t ORDER BY a; DROP TABLE t",
      "DROP TABLE t",
      "EXPLAIN (ANALYZE) SELECT a FROM t",
      "explain analyze drop table t",
      "" }

Formats == {"json", "jsonl", "csv"}

ToolInputs(t) ==
    CASE t = "db_query" ->
            [initialized : BOOLEAN, rows : {MaxData}, limit : 0..MaxLimit,
             maxRowLimit : {1, DefaultMaxRowLimit}]
      [] t = "db_explain" ->
            [initialized : BOOLEAN, rows : {MaxData}]
      [] t = "db_run_file" ->
            [initialized : BOOLEAN, rows : {MaxData}, limit : {MaxLimit},
             maxRowLimit : {DefaultMaxRowLimit}, ext : {".sql", ".md"}, exists : BOOLEAN]
      [] t = "db_export" ->
            [initialized : BOOLEAN, rows : {0, MaxData}, limit : {MaxLimit},
             format : {"json", "csv"},
             table : {"users", " users ", "us\"ers", ""},
             columns : {<< >>, << "id" >>, << "id", "na me" >>},
             where : {"", "id > 1", "1=1; DROP TABLE t"}]
      [] t = "db_export_batch" ->
            [initialized : BOOLEAN, rows : 0..MaxData, format : Formats,
             batchSize : 1..MaxBatchSize, stale : BOOLEAN]
            \cup
            [initialized : BOOLEAN, rows : 0..MaxData, format : Formats,
             batchSize : 1..MaxBatchSize, stale : BOOLEAN, maxRows : 0..MaxRowCap]

\* security.allowedStatements of the project: the default, or narrowed
ProjectConfigs == {ALLOWED_PREFIXES, << "SELECT" >>}

\* what the output path holds before the call: nothing, or an older export
StaleContent == "old"
InitialFile(t, inp) ==
    IF t = "db_export_batch" /\ inp.stale THEN [exists |-> TRUE, content |-> StaleContent]
    ELSE NoFile

Init ==
    /\ tool \in Tools
    /\ pc = "start"
    /\ sql \in (IF tool = "db_export" THEN {""} ELSE Statements)
    /\ allowedStatements \in ProjectConfigs
    /\ input \in ToolInputs(tool)
    /\ validation = NoResult
    /\ stmt = ""
    /\ connected = FALSE
    /\ issued = << >>
    /\ file = InitialFile(tool, input)
    /\ writes = << >>
    /\ result = NoResult
    /\ job = NoJob

(***************************************************************************)
(* Steps shared by the handlers                                            *)
(***************************************************************************)
Return(r) == result' = r /\ pc' = "done"

NotInitialized == error("Project not initialized. Run db_init first.")

\* the message of the handler's catch block
CatchMessage(t) ==
    CASE t = "db_query" -> "Query execution failed"
      [] t = "db_explain" -> "Explain execution failed"
      [] t = "db_run_file" -> "Query execution failed"
      [] t = "db_export" -> "Failed to export data"
      [] t = "db_export_batch" -> "Failed to export data"

\* await getDriverWithConnection(...) rejects: the catch block returns
ConnectFail ==
    /\ pc = "connecting"
    /\ Return(errorWith(CatchMessage(tool), "connection failed"))
    /\ UNCHANGED <<tool, sql, allowedStatements, input, validation, stmt, connected,
                   issued, file, writes, job>>

\* a catch block that removes the partial output before it returns
ExecutorFailRollsBack ==
    /\ pc \in {"querying", "tableExists"}
    /\ Return(errorWith(CatchMessage(tool), "executor failed"))
    /\ file' = NoFile
    /\ UNCHANGED <<tool, sql, allowedStatements, input, validation, stmt, connected,
                   issued, writes, job>>

\* await driver.query / driver.explain / driver.tableExists rejects
ExecutorFail ==
    /\ pc \in {"querying", "tableExists"}
    /\ Return(errorWith(CatchMessage(tool), "executor failed"))
    /\ UNCHANGED <<tool, sql, allowedStatements, input, validation, stmt, connected,
                   issued, file, writes, job>>

(***************************************************************************)
(* dbQuery                                                                 *)
(***************************************************************************)
dbQueryCall ==
    /\ tool = "db_query" /\ pc = "start"
    /\ IF ~input.initialized
       THEN Return(NotInitialized) /\ UNCHANGED <<validation, stmt, connected>>
       ELSE LET v == validateQuery(sql, allowedStatements)
            IN  /\ validation' = v
                /\ IF ~v.valid
                   THEN /\ Return(error("Query validation failed: " \o v.error))
                        /\ UNCHANGED <<stmt, connected>>
                   ELSE /\ stmt' = enforceLimit(v.normalized, min(input.limit, input.maxRowLimit))
                        /\ connected' = TRUE
                        /\ pc' = "connecting"
                        /\ UNCHANGED result
    /\ UNCHANGED <<tool, sql, allowedStatements, input, issued, file, writes, job>>

dbQueryConnected ==
    /\ tool = "db_query" /\ pc = "connecting"
    /\ issued' = Append(issued, [op |-> "query", sql |-> stmt])
    /\ pc' = "querying"
    /\ UNCHANGED <<tool, sql, allowedStatements, input, validation, stmt, connected,
                   file, writes, result, job>>

dbQueryResult ==
    /\ tool = "db_query" /\ pc = "querying"
    /\ Return([ok |-> TRUE, rowCount |-> input.rows])
    /\ UNCHANGED <<tool, sql, allowedStatements, input, validation, stmt, connected,
                   issued, file, writes, job>>

(***************************************************************************)
(* dbExplain                                                               *)
(***************************************************************************)
dbExplainCall ==
    /\ tool = "db_explain" /\ pc = "start"
    /\ IF ~input.initialized
       THEN Return(NotInitialized) /\ UNCHANGED <<validation, stmt, connected>>
       ELSE LET v == validateQuery(sql, << "SELECT", "WITH" >>)
            IN  /\ validation' = v
                /\ IF ~v.valid
                   THEN /\ Return(error("Query validation failed: " \o v.error))
                        /\ UNCHANGED <<stmt, connected>>
                   ELSE /\ stmt' = v.normalized
                        /\ connected' = TRUE
                        /\ pc' = "connecting"
                        /\ UNCHANGED result
    /\ UNCHANGED <<tool, sql, allowedStatements, input, issued, file, writes, job>>

dbExplainConnected ==
    /\ tool = "db_explain" /\ pc = "connecting"
    /\ issued' = Append(issued, [op |-> "explain", sql |-> stmt])
    /\ pc' = "querying"
    /\ UNCHANGED <<tool, sql, allowedStatements, input, validation, stmt, connected,
                   file, writes, result, job>>

dbExplainResult ==
    /\ tool = "db_explain" /\ pc = "querying"
    /\ Return([ok |-> TRUE, sql |-> stmt])
    /\ UNCHANGED <<tool, sql, allowedStatements, input, validation, stmt, connected,
                   issued, file, writes, job>>

(***************************************************************************)
(* dbRunFile                                                               *)
(***************************************************************************)
\* s.replace(/^WORD\s*/i, '')
dropLeadingWord(s, word) ==
    IF startsWith(toUpperCase(s), word) THEN SubSeq(s, SkipSpaces(s, Len(word) + 1), Len(s))
    ELSE s

\* s.replace(/^\(\s*[^)]*\)\s*/i, '')
dropLeadingOptions(s) ==
    LET close == {i \in 1..Len(s) : CharAt(s, i) = ")"}
        first == CHOOSE i \in close : \A j \in close : i <= j
    IN  IF startsWith(s, "(") /\ close # {} THEN SubSeq(s, SkipSpaces(s, first + 1), Len(s))
        ELSE s

innerSql(rawSql) ==
    trim(dropLeadingWord(dropLeadingOptions(dropLeadingWord(rawSql, "EXPLAIN")), "ANALYZE"))

\* [...new Set([...allowedStatements, 'EXPLAIN'])]
allowedWithExplain(allowed) ==
    IF \E k \in 1..Len(allowed) : allowed[k] = "EXPLAIN" THEN allowed
    ELSE Append(allowed, "EXPLAIN")

isExplain(rawSql) == startsWith(trimStart(toUpperCase(rawSql)), "EXPLAIN")

dbRunFileCall ==
    /\ tool = "db_run_file" /\ pc = "start"
    /\ LET rawSql == trim(sql)
           v == IF isExplain(rawSql) THEN validateQuery(innerSql(rawSql), << "SELECT", "WITH" >>)
                ELSE validateQuery(rawSql, allowedWithExplain(allowedStatements))
       IN  IF ~input.initialized
           THEN Return(NotInitialized) /\ UNCHANGED <<validation, stmt, connected>>
           ELSE IF input.ext # ".sql" /\ input.ext # ".txt"
           THEN /\ Return(error("Invalid file extension. Only .sql and .txt files are allowed."))
                /\ UNCHANGED <<validation, stmt, connected>>
           ELSE IF ~input.exists
           THEN Return(error("File not found")) /\ UNCHANGED <<validation, stmt, connected>>
           ELSE IF rawSql = ""
           THEN Return(error("SQL file is empty.")) /\ UNCHANGED <<validation, stmt, connected>>
           ELSE /\ validation' = v
                /\ IF ~v.valid
                   THEN /\ Return(error("Query validation failed: " \o v.error))
                        /\ UNCHANGED <<stmt, connected>>
                   ELSE /\ stmt' = IF isExplain(rawSql) THEN v.normalized
                                   ELSE enforceLimit(v.normalized,
                                                     min(input.limit, input.maxRowLimit))
                        /\ connected' = TRUE
                        /\ pc' = "connecting"
                        /\ UNCHANGED result
    /\ UNCHANGED <<tool, sql, allowedStatements, input, issued, file, writes, job>>

dbRunFileConnected ==
    /\ tool = "db_run_file" /\ pc = "connecting"
    /\ issued' = Append(issued, [op |-> IF isExplain(trim(sql)) THEN "explain" ELSE "query",
                                 sql |-> stmt])
    /\ pc' = "querying"
    /\ UNCHANGED <<tool, sql, allowedStatements, input, validation, stmt, connected,
                   file, writes, result, job>>

dbRunFileResult ==
    /\ tool = "db_run_file" /\ pc = "querying"
    /\ Return([ok |-> TRUE, rowCount |-> IF isExplain(trim(sql)) THEN 0 ELSE input.rows])
    /\ UNCHANGED <<tool, sql, allowedStatements, input, validation, stmt, connected,
                   issued, file, writes, job>>

(***************************************************************************)
(* dbExport                                                                *)
(***************************************************************************)
Schema == "public"

\* /^[a-zA-Z0-9_\s=<>!'".,()-]+$/
SimpleWhere(w) ==
    /\ Len(w) >= 1
    /\ \A i \in 1..Len(w) :
           CharAt(w, i) \in WordSet \cup SpaceSet
                            \cup {"=", "<", ">", "!", "'", "\"", ".", ",", "(", ")", "-"}

RECURSIVE quotedList(_)
\* columns.map(c => `"${c.replace(/"/g, '""')}"`).join(', ')
quotedList(columns) ==
    IF Len(columns) = 0 THEN ""
    ELSE "\"" \o doubleQuotes(columns[1]) \o "\""
         \o (IF Len(columns) = 1 THEN "" ELSE ", " \o quotedList(Tail(columns)))

exportSql(inp) ==
    "SELECT " \o (IF Len(inp.columns) > 0 THEN quotedList(inp.columns) ELSE "*")
    \o " FROM \"" \o Schema \o "\".\"" \o inp.table \o "\""
    \o (IF inp.where # "" THEN " WHERE " \o inp.where ELSE "")
    \o " LIMIT " \o NumberToString(min(max(1, inp.limit), MaxExportLimit))

exportOutput(format, rows) ==
    IF format = "csv"
    THEN IF Len(rows) = 0 THEN ""
         ELSE join(ObjectKeys(rows[1]), ",") \o "\n" \o joinMap(rows, "csv", "\n")
    ELSE IF Len(rows) = 0 THEN "[]"
         ELSE "[\n" \o joinMap(rows, "pretty", ",\n") \o "\n]"

tableChecked(inp) == validateIdentifier(inp.table, "table").valid
columnsChecked(inp) ==
    Len(inp.columns) > 0 => validateIdentifiers(inp.columns, "column").valid

dbExportCall ==
    /\ tool = "db_export" /\ pc = "start"
    /\ IF ~input.initialized THEN Return(NotInitialized) /\ UNCHANGED connected
       ELSE IF ~tableChecked(input)
       THEN Return(error(validateIdentifier(input.table, "table").error)) /\ UNCHANGED connected
       ELSE IF ~columnsChecked(input)
       THEN /\ Return(error(validateIdentifiers(input.columns, "column").error))
            /\ UNCHANGED connected
       ELSE connected' = TRUE /\ pc' = "connecting" /\ UNCHANGED result
    /\ UNCHANGED <<tool, sql, allowedStatements, input, validation, stmt, issued, file,
                   writes, job>>

dbExportConnected ==
    /\ tool = "db_export" /\ pc = "connecting"
    /\ pc' = "tableExists"
    /\ UNCHANGED <<tool, sql, allowedStatements, input, validation, stmt, connected,
                   issued, file, writes, result, job>>

dbExportTableExists ==
    /\ tool = "db_export" /\ pc = "tableExists"
    /\ \E exists \in BOOLEAN :
          IF ~exists
          THEN Return(error("Table not found in schema")) /\ UNCHANGED <<stmt, issued>>
          ELSE IF input.where # "" /\ ~SimpleWhere(input.where)
          THEN /\ Return(error("Invalid WHERE clause. Only simple conditions allowed."))
               /\ UNCHANGED <<stmt, issued>>
          ELSE /\ stmt' = exportSql(input)
               /\ issued' = Append(issued, [op |-> "query", sql |-> exportSql(input)])
               /\ pc' = "querying"
               /\ UNCHANGED result
    /\ UNCHANGED <<tool, sql, allowedStatements, input, validation, connected, file,
                   writes, job>>

dbExportResult ==
    /\ tool = "db_export" /\ pc = "querying"
    /\ LET rows == Executor(input.rows, min(max(1, input.limit), MaxExportLimit), 0)
           output == exportOutput(input.format, rows)
       IN  /\ file' = writeFileSync(file, output)
           /\ writes' = Append(writes, [op |-> "write", data |-> output])
           /\ Return([ok |-> TRUE, table |-> input.table, format |-> input.format,
                      rowCount |-> Len(rows), filepath |-> "exports/" \o input.table])
    /\ UNCHANGED <<tool, sql, allowedStatements, input, validation, stmt, connected,
                   issued, job>>

(***************************************************************************)
(* dbExportBatch                                                           *)
(***************************************************************************)
\* outputPath, or join(exportDir, `batch_export_${timestamp}.${format}`)
Filepath(inp) == IF inp.stale THEN "out/export.dat" ELSE "exports/batch_export." \o inp.format

\* lines 555-582: close the JSON array and return success
BatchFinish(j, f, w) ==
    /\ file' = IF input.format = "json" THEN appendFileSync(f, "\n]") ELSE f
    /\ writes' = IF input.format = "json" THEN Append(w, [op |-> "append", data |-> "\n]"])
                 ELSE w
    /\ job' = j
    /\ Return([ok |-> TRUE, filepath |-> j.filepath, format |-> input.format,
               totalRows |-> j.totalRows, batchCount |-> j.batchCount,
               batchSize |-> input.batchSize])
    /\ UNCHANGED issued

\* a loop that sends the next query before the batch in hand is on the file
BatchLoopWriteBehind(j, f, w) ==
    LET effectiveLimit == EffectiveLimit(input, j.totalRows)
    IN  IF effectiveLimit <= 0 THEN BatchFinish(j, f, w)
        ELSE /\ job' = [j EXCEPT !.effectiveLimit = effectiveLimit]
             /\ issued' = Append(issued,
                    [op |-> "query", sql |-> BatchQuery(j.baseQuery, effectiveLimit, j.offset)])
             /\ pc' = "querying"
             /\ UNCHANGED <<file, writes, result>>

\* lines 482-487: the head of the batch loop, up to await driver.query(batchQuery)
BatchLoop(j, f, w) ==
    LET effectiveLimit == EffectiveLimit(input, j.totalRows)
    IN  IF effectiveLimit <= 0 THEN BatchFinish(j, f, w)
        ELSE /\ job' = [j EXCEPT !.effectiveLimit = effectiveLimit]
             /\ issued' = Append(issued,
                    [op |-> "query", sql |-> BatchQuery(j.baseQuery, effectiveLimit, j.offset)])
             /\ pc' = "querying"
             /\ file' = f
             /\ writes' = w
             /\ UNCHANGED result

\* line 438: !/\bORDER\s+BY\b/i.test(sql)
OrderingNeverMissing(s) == FALSE
OrderingMissing(s) == ~HasOrderBy(s)

\* lines 419-444, up to await getDriverWithConnection(...)
dbExportBatchCall ==
    /\ tool = "db_export_batch" /\ pc = "start"
    /\ IF ~input.initialized
       THEN Return(NotInitialized) /\ UNCHANGED <<validation, connected>>
       ELSE LET v == validateQuery(sql, ALLOWED_PREFIXES)
            IN  /\ validation' = v
                /\ IF ~v.valid
                   THEN Return(error("Invalid query: " \o v.error)) /\ UNCHANGED connected
                   ELSE IF OrderingMissing(sql)
                   THEN /\ Return(error("Query must include ORDER BY clause for consistent pagination"))
                        /\ UNCHANGED connected
                   ELSE connected' = TRUE /\ pc' = "connecting" /\ UNCHANGED result
    /\ UNCHANGED <<tool, sql, allowedStatements, input, stmt, issued, file, writes, job>>

\* lines 446-487: the output path, the base query, the counters, the opening
\* bracket of a JSON array, and the first turn of the loop
dbExportBatchConnected ==
    /\ tool = "db_export_batch" /\ pc = "connecting"
    /\ LET j == [filepath |-> Filepath(input), baseQuery |-> BaseQuery(sql),
                 totalRows |-> 0, batchCount |-> 0, offset |-> 0, isFirstBatch |-> TRUE,
                 headers |-> << >>, effectiveLimit |-> 0]
           json == input.format = "json"
           f == IF json THEN writeFileSync(file, "[\n") ELSE file
           w == IF json THEN Append(writes, [op |-> "write", data |-> "[\n"]) ELSE writes
       IN  BatchLoop(j, f, w)
    /\ UNCHANGED <<tool, sql, allowedStatements, input, validation, stmt, connected>>

\* line 489: result.rows.length === 0
NoMoreData(rows) == Len(rows) = 0

\* line 545: result.rows.length < effectiveLimit
ShortBatchIgnored(rows, effectiveLimit) == FALSE
ShortBatch(rows, effectiveLimit) == Len(rows) < effectiveLimit

\* line 550: maxRows && totalRows >= maxRows
CapReached(inp, totalRows) == MaxRowsTruthy(inp) /\ totalRows >= inp.maxRows

\* batches written with no separator between one batch and the next
BatchWritesUnseparated(j, rows) ==
    CASE input.format = "jsonl" ->
            << [op |-> "append", data |-> joinMap(rows, "json", "\n")] >>
      [] input.format = "csv" ->
            (IF j.isFirstBatch /\ Len(rows) > 0
             THEN << [op |-> "write", data |-> join(ObjectKeys(rows[1]), ",") \o "\n"] >>
             ELSE << >>)
            \o << [op |-> "append", data |-> joinMap(rows, "csv", "\n") \o "\n"] >>
      [] input.format = "json" ->
            << [op |-> "append", data |-> joinMap(rows, "indent", ",\n")] >>

\* batches written with a line break in front of every batch, the first too
BatchWritesLeadingBreak(j, rows) ==
    CASE input.format = "jsonl" ->
            << [op |-> "append", data |-> "\n" \o joinMap(rows, "json", "\n")] >>
      [] input.format = "csv" ->
            (IF j.isFirstBatch /\ Len(rows) > 0
             THEN << [op |-> "write", data |-> join(ObjectKeys(rows[1]), ",") \o "\n"] >>
             ELSE << >>)
            \o << [op |-> "append", data |-> joinMap(rows, "csv", "\n") \o "\n"] >>
      [] input.format = "json" ->
            << [op |-> "append",
                data |-> (IF j.totalRows > 0 THEN ",\n" ELSE "") \o joinMap(rows, "indent", ",\n")] >>

\* what one batch puts on the file, lines 493-531, as the list of fs calls
BatchWrites(j, rows) ==
    CASE input.format = "jsonl" ->
            << [op |-> "append",
                data |-> (IF j.totalRows > 0 THEN "\n" ELSE "") \o joinMap(rows, "json", "\n")] >>
      [] input.format = "csv" ->
            (IF j.isFirstBatch /\ Len(rows) > 0
             THEN << [op |-> "write", data |-> join(ObjectKeys(rows[1]), ",") \o "\n"] >>
             ELSE << >>)
            \o << [op |-> "append", data |-> joinMap(rows, "csv", "\n") \o "\n"] >>
      [] input.format = "json" ->
            << [op |-> "append",
                data |-> (IF j.totalRows > 0 THEN ",\n" ELSE "") \o joinMap(rows, "indent", ",\n")] >>

RECURSIVE ApplyWrites(_, _)
ApplyWrites(f, ws) ==
    IF Len(ws) = 0 THEN f
    ELSE ApplyWrites(IF ws[1].op = "write" THEN writeFileSync(f, ws[1].data)
                     ELSE appendFileSync(f, ws[1].data), Tail(ws))

\* counters advanced with isFirstBatch left as it was
AdvanceStillFirstBatch(j, rows) ==
    [j EXCEPT !.totalRows = @ + Len(rows), !.batchCount = @ + 1, !.offset = @ + Len(rows),
              !.headers = IF j.isFirstBatch /\ input.format = "csv" THEN ObjectKeys(rows[1])
                          ELSE @]

\* counters advanced without the rows of the batch added to totalRows
AdvanceWithoutTotal(j, rows) ==
    [j EXCEPT !.batchCount = @ + 1, !.offset = @ + Len(rows),
              !.isFirstBatch = FALSE,
              !.headers = IF j.isFirstBatch /\ input.format = "csv" THEN ObjectKeys(rows[1])
                          ELSE @]
\* lines 533-536 after a batch of k rows
Advance(j, rows) ==
    [j EXCEPT !.totalRows = @ + Len(rows), !.batchCount = @ + 1, !.offset = @ + Len(rows),
              !.isFirstBatch = FALSE,
              !.headers = IF j.isFirstBatch /\ input.format = "csv" THEN ObjectKeys(rows[1])
                          ELSE @]
\* lines 487-553: await driver.query(batchQuery) resolves; the batch is written
\* and the loop goes round, up to the next await or to the return
dbExportBatchResult ==
    /\ tool = "db_export_batch" /\ pc = "querying"
    /\ LET rows == Executor(input.rows, job.effectiveLimit, job.offset)
           ws == BatchWrites(job, rows)
           j == Advance(job, rows)
           f == ApplyWrites(file, ws)
       IN  IF NoMoreData(rows) THEN BatchFinish(job, file, writes)
           ELSE IF ShortBatch(rows, job.effectiveLimit) THEN BatchFinish(j, f, writes \o ws)
           ELSE IF CapReached(input, j.totalRows) THEN BatchFinish(j, f, writes \o ws)
           ELSE BatchLoop(j, f, writes \o ws)
    /\ UNCHANGED <<tool, sql, allowedStatements, input, validation, stmt, connected>>

(***************************************************************************)
(* The specification of one tool call                                      *)
(***************************************************************************)
Next ==
    \/ dbQueryCall \/ dbQueryConnected \/ dbQueryResult
    \/ dbExplainCall \/ dbExplainConnected \/ dbExplainResult
    \/ dbRunFileCall \/ dbRunFileConnected \/ dbRunFileResult
    \/ dbExportCall \/ dbExportConnected \/ dbExportTableExists \/ dbExportResult
    \/ dbExportBatchCall \/ dbExportBatchConnected \/ dbExportBatchResult
    \/ ConnectFail \/ ExecutorFail

Spec == Init /\ [][Next]_vars

(***************************************************************************)
(* validateQuery on its own: the statement is put together from a start, a *)
(* middle word (every blocked keyword, in upper and lower case) and the    *)
(* characters around that word                                             *)
(***************************************************************************)
MaxGlue == 1        \* characters in front of the middle word: 0 .. MaxGlue

LowerOfChar(c) ==
    IF c \in CharsOf(Uppers)
    THEN SubSeq(Lowers, CHOOSE i \in 1..26 : SubSeq(Uppers, i, i) = c,
                        CHOOSE i \in 1..26 : SubSeq(Uppers, i, i) = c)
    ELSE c

RECURSIVE toLowerCase(_)
toLowerCase(s) ==
    IF s = "" THEN ""
    ELSE LowerOfChar(SubSeq(s, 1, 1)) \o toLowerCase(SubSeq(s, 2, Len(s)))

Heads == {"SELECT ", "select\n", " With x", "SHOW", ""}

GlueChars == {" ", ";", "_"}

RECURSIVE Glue(_)
Glue(n) == IF n = 0 THEN {""} ELSE Glue(n - 1) \cup {g \o c : g \in Glue(n - 1), c \in GlueChars}

Middles ==
    {BLOCKED_KEYWORDS[k] : k \in 1..Len(BLOCKED_KEYWORDS)}
    \cup {toLowerCase(BLOCKED_KEYWORDS[k]) : k \in 1..Len(BLOCKED_KEYWORDS)}
    \cup {"Set\n\tRole", "a", "deleted_at", "LIMIT 5"}

Tails == {"", " ", ";", "_x", " b", "; ", ";b"}

\* statements the documentation gives as examples, and one whose column name
\* holds a keyword that a pattern without word boundaries looks for
Examples ==
    {"update users set x=1", "SELECT deleted_at FROM events",
     "SELECT xcopy AS total FROM t"}

ValidatorInputs ==
    {h \o g \o m \o t : h \in Heads, g \in Glue(MaxGlue), m \in Middles, t \in Tails}
    \cup Examples

PrefixConfigs == {ALLOWED_PREFIXES, << "WITH", "DROP" >>}

InitValidate ==
    /\ tool = "validateQuery"
    /\ pc = "start"
    /\ sql \in ValidatorInputs
    /\ allowedStatements \in PrefixConfigs
    /\ input = [initialized |-> TRUE]
    /\ validation = NoResult
    /\ stmt = ""
    /\ connected = FALSE
    /\ issued = << >>
    /\ file = NoFile
    /\ writes = << >>
    /\ result = NoResult
    /\ job = NoJob

ValidateCall ==
    /\ tool = "validateQuery" /\ pc = "start"
    /\ validation' = validateQuery(sql, allowedStatements)
    /\ pc' = "done"
    /\ UNCHANGED <<tool, sql, allowedStatements, input, stmt, connected, issued, file,
                   writes, result, job>>

NextValidate == ValidateCall

SpecValidate == InitValidate /\ [][NextValidate]_vars

Validated == tool = "validateQuery" /\ pc = "done"

(***************************************************************************)
(* C2                                                                      *)
(***************************************************************************)
RECURSIVE WordEnd(_, _, _)
\* where keyword, read from position i of s without regard to case and with
\* its blank standing for any run of whitespace, ends; 0 if it is not there
WordEnd(s, i, keyword) ==
    IF keyword = "" THEN i
    ELSE IF SubSeq(keyword, 1, 1) = " "
         THEN IF IsSpace(CharAt(s, i))
              THEN WordEnd(s, SkipSpaces(s, i), SubSeq(keyword, 2, Len(keyword)))
              ELSE 0
    ELSE IF ToUpperChar(CharAt(s, i)) = SubSeq(keyword, 1, 1)
         THEN WordEnd(s, i + 1, SubSeq(keyword, 2, Len(keyword)))
         ELSE 0

OccursAsWholeWord(s, keyword) ==
    \E i \in 1..Len(s) :
        /\ WordEnd(s, i, keyword) # 0
        /\ ~IsWordChar(CharAt(s, i - 1))
        /\ ~IsWordChar(CharAt(s, WordEnd(s, i, keyword)))

HasBlockedWord(s) ==
    \E k \in 1..Len(BLOCKED_KEYWORDS) : OccursAsWholeWord(s, BLOCKED_KEYWORDS[k])

\* C2: a statement in which a blocked keyword occurs as a whole word, in any
\* letter case and under any configured prefixes, is rejected by validateQuery
C2_BlockedKeywordRejected ==
    (Validated /\ HasBlockedWord(sql)) => ~validation.valid

\* a lower-case, two-word keyword behind an allowed prefix has been rejected
C2_Witness ==
    /\ Validated
    /\ startsWith(sql, "SELECT ")
    /\ OccursAsWholeWord(sql, "SET ROLE")
    /\ ~includes(sql, "SET ROLE")
    /\ ~validation.valid

(***************************************************************************)
(* C3                                                                      *)
(***************************************************************************)
BeginsWithAllowed(s, allowed) ==
    \E k \in 1..Len(allowed) : startsWith(toUpperCase(s), toUpperCase(allowed[k]))

\* C3: a rejected result carries no normalized statement; an accepted one
\* carries a non-empty statement without leading, trailing or doubled
\* whitespace that begins, case-insensitively, with an allowed prefix; a
\* statement that does not begin with an allowed prefix is rejected
C3_OutcomeShape ==
    Validated =>
        /\ ~validation.valid => "normalized" \notin DOMAIN validation
        /\ validation.valid =>
            /\ "normalized" \in DOMAIN validation
            /\ Len(validation.normalized) > 0
            /\ ~IsSpace(CharAt(validation.normalized, 1))
            /\ ~IsSpace(CharAt(validation.normalized, Len(validation.normalized)))
            /\ \A i \in 1..Len(validation.normalized) :
                   ~(IsSpace(CharAt(validation.normalized, i))
                     /\ IsSpace(CharAt(validation.normalized, i + 1)))
            /\ BeginsWithAllowed(validation.normalized, allowedStatements)
        /\ ~BeginsWithAllowed(trim(sql), allowedStatements) => ~validation.valid

\* an accepted statement whose text had whitespace to trim and to collapse
C3_Witness ==
    /\ Validated
    /\ validation.valid
    /\ IsSpace(CharAt(sql, 1)) /\ IsSpace(CharAt(sql, Len(sql)))
    /\ Len(validation.normalized) < Len(trim(sql))

(***************************************************************************)
(* C4                                                                      *)
(***************************************************************************)
\* every check of validateQuery but the one on semicolons
OtherChecksPass(s, allowed) ==
    /\ Normalize(s) # ""
    /\ Len(Normalize(s)) <= MaxQueryLength
    /\ startsWithAllowed(toUpperCase(Normalize(s)), allowed)
    /\ FirstBlocked(Normalize(s)) = 0
    /\ ~DANGEROUS_PATTERNS(Normalize(s))

\* C4: more than one ';', or one ';' that is not the last character of the
\* trimmed statement, is rejected; one final ';' is accepted when every other
\* check passes
C4_Semicolons ==
    Validated =>
        /\ CountChar(sql, ";") > 1 => ~validation.valid
        /\ (CountChar(sql, ";") = 1 /\ ~endsWith(trim(sql), ";")) => ~validation.valid
        /\ (CountChar(sql, ";") = 1 /\ endsWith(trim(sql), ";")
            /\ OtherChecksPass(sql, allowedStatements)) => validation.valid

\* a statement with one final ';' (whitespace after it) has been accepted
C4_Witness ==
    /\ Validated
    /\ validation.valid
    /\ CountChar(sql, ";") = 1
    /\ endsWith(sql, "; ")

(***************************************************************************)
(* Reading a run of the handlers                                           *)
(***************************************************************************)
RECURSIVE NumbersFrom(_, _)
\* the numbers written in s from position i on, in order
NumbersFrom(s, i) ==
    IF i > Len(s) THEN << >>
    ELSE IF IsDigit(CharAt(s, i))
         THEN << parseInt(SubSeq(s, i, SkipDigits(s, i) - 1)) >> \o NumbersFrom(s, SkipDigits(s, i))
         ELSE NumbersFrom(s, i + 1)

RECURSIVE DataOf(_)
\* everything the call has put on the sink, in order
DataOf(ws) == IF Len(ws) = 0 THEN "" ELSE ws[1].data \o DataOf(Tail(ws))

\* ids of the rows on the sink
RowsWritten == NumbersFrom(DataOf(writes), 1)

FirstRows(n) == [k \in 1..n |-> k - 1]

Batch == tool = "db_export_batch"
InLoop == Batch /\ "totalRows" \in DOMAIN job
Checked == "valid" \in DOMAIN validation
LastIssued == issued[Len(issued)]

(***************************************************************************)
(* C1                                                                      *)
(***************************************************************************)
QueryTools == {"db_query", "db_explain", "db_run_file", "db_export_batch"}

\* the prefixes the call validated its statement against
CallPrefixes ==
    CASE tool = "db_query" -> allowedStatements
      [] tool = "db_explain" -> << "SELECT", "WITH" >>
      [] tool = "db_run_file" -> IF isExplain(trim(sql)) THEN << "SELECT", "WITH" >>
                                 ELSE allowedWithExplain(allowedStatements)
      [] tool = "db_export_batch" -> ALLOWED_PREFIXES

IdentifiersValid ==
    /\ validateIdentifier(input.table, "table").valid
    /\ \A k \in 1..Len(input.columns) : validateIdentifier(input.columns[k], "column").valid

RejectedInput ==
    \/ tool \in QueryTools /\ Checked /\ ~validation.valid
    \/ tool = "db_export" /\ pc # "start" /\ input.initialized /\ ~IdentifiersValid

\* every statement handed to the driver was accepted by this call's validation
OnlyAcceptedStatementsIssued ==
    tool \in QueryTools =>
        \A k \in 1..Len(issued) :
            /\ Checked /\ validation.valid
            /\ validateQuery(issued[k].sql, CallPrefixes).valid

\* C1: the executor is called only with a statement validateQuery accepted in
\* the same call, in db_export only after table and columns were accepted; a
\* rejected input ends in an error with no query, no connection and no file
C1_OnlyValidatedReachesExecutor ==
    /\ OnlyAcceptedStatementsIssued
    /\ (tool = "db_export" /\ issued # << >>) => IdentifiersValid
    /\ RejectedInput =>
          /\ pc = "done" /\ ~result.ok
          /\ issued = << >> /\ ~connected /\ writes = << >>

C6_CapBoundsEveryBatch ==
    (Batch /\ MaxRowsGiven(input)) =>
        /\ pc = "querying" =>
              /\ min(input.batchSize, input.maxRows - job.totalRows) >= 1
              /\ endsWith(LastIssued.sql,
                     " LIMIT "
                     \o NumberToString(min(input.batchSize, input.maxRows - job.totalRows))
                     \o " OFFSET " \o NumberToString(job.offset))
        /\ InLoop => job.totalRows <= input.maxRows
        /\ Len(RowsWritten) <= input.maxRows

(***************************************************************************)
(* C7                                                                      *)
(***************************************************************************)
OneQueryLimitedToCap ==
    /\ Len(issued) = 1
    /\ issued[1].sql = job.baseQuery \o " LIMIT " \o NumberToString(input.maxRows) \o " OFFSET 0"

\* C7 as stated: a row cap below the batch size makes the export issue exactly
\* one query, whose LIMIT is the cap
C7_AsStated ==
    (InLoop /\ MaxRowsGiven(input) /\ input.maxRows < input.batchSize) => OneQueryLimitedToCap

\* for a row cap of at least 1 the statement of C7 holds: the export issues
\* exactly one query, whose LIMIT is the cap
C7_CapBelowBatchSize ==
    (InLoop /\ MaxRowsGiven(input) /\ input.maxRows >= 1 /\ input.maxRows < input.batchSize)
        => OneQueryLimitedToCap

\* a capped export has completed on one full batch of maxRows rows
C7_Witness ==
    /\ InLoop /\ pc = "done" /\ result.ok
    /\ MaxRowsGiven(input) /\ input.maxRows >= 1 /\ input.maxRows < input.batchSize
    /\ result.totalRows = input.maxRows
    /\ input.rows > input.maxRows

(***************************************************************************)
(* C8                                                                      *)
(***************************************************************************)
\* T = min(n, rowCap), n without a cap
Expected == IF MaxRowsGiven(input) THEN min(input.rows, input.maxRows) ELSE input.rows

\* C8: a completed export has written rows 0 .. T-1 in order, each once, and
\* reports totalRows = T and batchCount = ceil(T / batchSize); in the loop the
\* offset equals the rows written so far
C8_ExportsExactlyTheRows ==
    /\ InLoop => job.offset = job.totalRows
    /\ (InLoop /\ pc = "done" /\ result.ok) =>
          /\ RowsWritten = FirstRows(Expected)
          /\ result.totalRows = Expected
          /\ result.batchCount = (Expected + input.batchSize - 1) \div input.batchSize

(***************************************************************************)
(* C9                                                                      *)
(***************************************************************************)
\* the rows the query in flight returns
Returned == Executor(input.rows, job.effectiveLimit, job.offset)

\* the driver answers the query in flight (the await does not reject)
Answered == Batch /\ pc = "querying" /\ ~(pc' = "done" /\ ~result'.ok)

\* what the step has put on the sink
Appended == DataOf(SubSeq(writes', Len(writes) + 1, Len(writes')))

IdsOf(rows) == [k \in 1..Len(rows) |-> rows[k].id]

\* C9: a query answered with zero rows ends the loop with no row appended and
\* batchCount as it was; a query answered with at least one row but fewer than
\* its LIMIT has its rows appended and no query is issued after it
C9_EndOfData ==
    [][ /\ (Answered /\ Len(Returned) = 0) =>
              /\ pc' = "done" /\ result'.ok
              /\ issued' = issued
              /\ Appended = (IF input.format = "json" THEN "\n]" ELSE "")
              /\ file'.content = file.content \o Appended
              /\ job'.batchCount = job.batchCount
              /\ result'.batchCount = job.batchCount
        /\ (Answered /\ Len(Returned) >= 1 /\ Len(Returned) < job.effectiveLimit) =>
              /\ pc' = "done" /\ result'.ok
              /\ issued' = issued
              /\ NumbersFrom(Appended, 1) = IdsOf(Returned)
              /\ job'.batchCount = job.batchCount + 1
        /\ pc = "done" => issued' = issued
      ]_vars

\* an uncapped export has ended on a short batch that followed a full one
C9_Witness ==
    /\ InLoop /\ pc = "done" /\ result.ok
    /\ ~MaxRowsGiven(input)
    /\ Len(issued) = 2 /\ result.batchCount = 2
    /\ result.totalRows = input.batchSize + 1
    /\ input.batchSize > 1

(***************************************************************************)
(* C10                                                                     *)
(***************************************************************************)
\* the await of the query in flight rejects
Failed == Batch /\ pc = "querying" /\ pc' = "done" /\ ~result'.ok

\* C10: when the executor fails on the k-th query the call ends in an error,
\* the query is not issued again and none is issued later, and the file holds
\* what batches 1 .. k-1 put there, untouched
C10_FailureLeavesPartialOutput ==
    /\ [][Failed => /\ issued' = issued
                    /\ file' = file
                    /\ writes' = writes
                    /\ result'.error = "Failed to export data"]_vars
    /\ [][pc = "done" => (issued' = issued /\ file' = file)]_vars
    /\ [](( Batch /\ pc = "done" /\ ~result.ok /\ issued # << >> ) =>
              /\ job.batchCount = Len(issued) - 1
              /\ \A k \in 1..Len(issued) :
                     \A m \in 1..Len(issued) : issued[k] = issued[m] => k = m
              /\ RowsWritten = FirstRows(job.totalRows)
              /\ file.exists = (input.stale \/ writes # << >>)
              /\ endsWith(file.content, DataOf(writes)))

\* the third query of an export has failed with two batches in the file
C10_Witness ==
    /\ Batch /\ pc = "done" /\ ~result.ok
    /\ Len(issued) = 3
    /\ job.batchCount = 2
    /\ Len(RowsWritten) = 2 * input.batchSize
    /\ file.exists

(***************************************************************************)
(* C11                                                                     *)
(***************************************************************************)
\* C11: a batch export that has chosen its output file names that file in its
\* result, when it completes and when the executor fails part-way
C11_ResultNamesOutputPath ==
    (InLoop /\ pc = "done") =>
        /\ "filepath" \in DOMAIN result
        /\ result.filepath = job.filepath

\* what holds of the code: the result of a completed export names the file
C11_CompletedNamesOutputPath ==
    (InLoop /\ pc = "done" /\ result.ok) =>
        /\ "filepath" \in DOMAIN result
        /\ result.filepath = job.filepath

\* the second query of an export has failed after one batch was written
C11_FailedPartWay ==
    /\ InLoop /\ pc = "done" /\ ~result.ok
    /\ Len(issued) = 2 /\ job.batchCount = 1
    /\ file.exists /\ RowsWritten # << >>

(***************************************************************************)
(* C12                                                                     *)
(***************************************************************************)
\* C12: one export run is sequential: a query is in flight only while the
\* handler waits for it, it is the only one, and query k+1 is sent only when
\* batches 1 .. k have been received and appended to the file
C12_OneQueryAtATime ==
    /\ []((Batch /\ pc = "querying") =>
              /\ Len(issued) = job.batchCount + 1
              /\ RowsWritten = FirstRows(job.totalRows)
              /\ endsWith(file.content, DataOf(writes)))
    /\ []((Batch /\ pc # "querying" /\ InLoop) =>
              Len(issued) \in {job.batchCount, job.batchCount + 1})
    /\ [][(Batch /\ issued' # issued) =>
              /\ issued' = Append(issued, issued'[Len(issued')])
              /\ pc' = "querying"
              /\ pc = "querying" =>
                    /\ Len(Returned) > 0
                    /\ NumbersFrom(Appended, 1) = IdsOf(Returned)
                    /\ job'.batchCount = job.batchCount + 1]_vars

\* the third query is in flight with two batches on the file
C12_Witness ==
    /\ Batch /\ pc = "querying"
    /\ Len(issued) = 3 /\ job.batchCount = 2
    /\ Len(RowsWritten) = 2 * input.batchSize

(***************************************************************************)
(* Concurrent calls of dbExportBatch: the server's request handler awaits  *)
(* each tool call, and calls of different requests interleave at the       *)
(* awaits of the handler (getDriverWithConnection, driver.query).  Here    *)
(* pc, validation, connected, issued, writes, result and job hold one      *)
(* value per run, and file one value per output path.  The runs are calls  *)
(* with the same input; input.clash says whether they resolve to the same  *)
(* output path (the same outputPath, or no outputPath and the same         *)
(* millisecond in `batch_export_${timestamp}.${format}`).                  *)
(***************************************************************************)
Runs == {1, 2}

ExportStatement == "SELECT a FROM t ORDER BY a"

\* the file run r writes to: job.filepath is kept without its timestamp, so
\* the files of the runs are told apart by this index
PathOf(r) == IF input.clash THEN 1 ELSE r

ConcurrentInputs ==
    [initialized : {TRUE}, rows : 0..MaxData, format : Formats,
     batchSize : 1..MaxBatchSize, stale : BOOLEAN, clash : BOOLEAN]
    \cup
    [initialized : {TRUE}, rows : 0..MaxData, format : Formats,
     batchSize : 1..MaxBatchSize, stale : BOOLEAN, clash : BOOLEAN, maxRows : 0..MaxRowCap]

InitConcurrent ==
    /\ tool = "concurrent"
    /\ pc = [r \in Runs |-> "start"]
    /\ sql = ExportStatement
    /\ allowedStatements = ALLOWED_PREFIXES
    /\ input \in ConcurrentInputs
    /\ validation = [r \in Runs |-> NoResult]
    /\ stmt = ""
    /\ connected = [r \in Runs |-> FALSE]
    /\ issued = [r \in Runs |-> << >>]
    /\ file = [p \in Runs |-> InitialFile("db_export_batch", input)]
    /\ writes = [r \in Runs |-> << >>]
    /\ result = [r \in Runs |-> NoResult]
    /\ job = [r \in Runs |-> NoJob]

\* lines 469-479: the locals of a run, and the file after the opening bracket
NewJob(r) ==
    [filepath |-> Filepath(input), baseQuery |-> BaseQuery(sql),
     totalRows |-> 0, batchCount |-> 0, offset |-> 0, isFirstBatch |-> TRUE,
     headers |-> << >>, effectiveLimit |-> 0]

Opened(f) == IF input.format = "json" THEN writeFileSync(f, "[\n") ELSE f

\* lines 555-558: the closing bracket
Closed(f) == IF input.format = "json" THEN appendFileSync(f, "\n]") ELSE f

\* lines 569-582
SuccessOf(j) ==
    [ok |-> TRUE, filepath |-> j.filepath, format |-> input.format,
     totalRows |-> j.totalRows, batchCount |-> j.batchCount, batchSize |-> input.batchSize]

\* run r leaves the loop and returns, f being the content of its file
RunFinish(r, j, f) ==
    /\ file' = [file EXCEPT ![PathOf(r)] = Closed(f)]
    /\ job' = [job EXCEPT ![r] = j]
    /\ result' = [result EXCEPT ![r] = SuccessOf(j)]
    /\ pc' = [pc EXCEPT ![r] = "done"]
    /\ UNCHANGED issued

\* run r at the head of the loop, lines 482-487
RunLoop(r, j, f) ==
    LET effectiveLimit == EffectiveLimit(input, j.totalRows)
    IN  IF effectiveLimit <= 0 THEN RunFinish(r, j, f)
        ELSE /\ job' = [job EXCEPT ![r] = [j EXCEPT !.effectiveLimit = effectiveLimit]]
             /\ issued' = [issued EXCEPT ![r] = Append(@,
                    [op |-> "query", sql |-> BatchQuery(j.baseQuery, effectiveLimit, j.offset)])]
             /\ pc' = [pc EXCEPT ![r] = "querying"]
             /\ file' = [file EXCEPT ![PathOf(r)] = f]
             /\ UNCHANGED result

\* lines 419-444 of run r
RunCall(r) ==
    /\ tool = "concurrent" /\ pc[r] = "start"
    /\ LET v == validateQuery(sql, ALLOWED_PREFIXES)
       IN  /\ validation' = [validation EXCEPT ![r] = v]
           /\ IF ~v.valid
              THEN /\ result' = [result EXCEPT ![r] = error("Invalid query: " \o v.error)]
                   /\ pc' = [pc EXCEPT ![r] = "done"]
                   /\ UNCHANGED connected
              ELSE IF OrderingMissing(sql)
              THEN /\ result' = [result EXCEPT ![r] =
                          error("Query must include ORDER BY clause for consistent pagination")]
                   /\ pc' = [pc EXCEPT ![r] = "done"]
                   /\ UNCHANGED connected
              ELSE /\ connected' = [connected EXCEPT ![r] = TRUE]
                   /\ pc' = [pc EXCEPT ![r] = "connecting"]
                   /\ UNCHANGED result
    /\ UNCHANGED <<tool, sql, allowedStatements, input, stmt, issued, file, writes, job>>

\* lines 446-487 of run r
RunConnected(r) ==
    /\ tool = "concurrent" /\ pc[r] = "connecting"
    /\ RunLoop(r, NewJob(r), Opened(file[PathOf(r)]))
    /\ UNCHANGED <<tool, sql, allowedStatements, input, validation, stmt, connected, writes>>

\* lines 487-553 of run r
RunResult(r) ==
    /\ tool = "concurrent" /\ pc[r] = "querying"
    /\ LET rows == Executor(input.rows, job[r].effectiveLimit, job[r].offset)
           ws == BatchWrites(job[r], rows)
           j == Advance(job[r], rows)
           f == ApplyWrites(file[PathOf(r)], ws)
       IN  /\ IF NoMoreData(rows) THEN RunFinish(r, job[r], file[PathOf(r)])
              ELSE IF ShortBatch(rows, job[r].effectiveLimit) THEN RunFinish(r, j, f)
              ELSE IF CapReached(input, j.totalRows) THEN RunFinish(r, j, f)
              ELSE RunLoop(r, j, f)
           /\ writes' = [writes EXCEPT ![r] = IF NoMoreData(rows) THEN @ ELSE @ \o ws]
    /\ UNCHANGED <<tool, sql, allowedStatements, input, validation, stmt, connected>>

\* lines 583-588 of run r: await driver.query rejects
RunExecutorFail(r) ==
    /\ tool = "concurrent" /\ pc[r] = "querying"
    /\ result' = [result EXCEPT ![r] = errorWith(CatchMessage("db_export_batch"), "executor failed")]
    /\ pc' = [pc EXCEPT ![r] = "done"]
    /\ UNCHANGED <<tool, sql, allowedStatements, input, validation, stmt, connected,
                   issued, file, writes, job>>

NextConcurrent ==
    \E r \in Runs : RunCall(r) \/ RunConnected(r) \/ RunResult(r) \/ RunExecutorFail(r)

SpecConcurrent == InitConcurrent /\ [][NextConcurrent]_vars

(***************************************************************************)
(* C13                                                                     *)
(***************************************************************************)
RECURSIVE RunAlone(_, _)
\* the loop of lines 482-558 run to its end with nothing else going on: the
\* locals and the file it ends with, from locals j and file f
RunAlone(j, f) ==
    LET effectiveLimit == EffectiveLimit(input, j.totalRows)
        rows == Executor(input.rows, effectiveLimit, j.offset)
        j2 == Advance(j, rows)
        f2 == ApplyWrites(f, BatchWrites(j, rows))
    IN  IF effectiveLimit <= 0 \/ NoMoreData(rows) THEN [job |-> j, file |-> Closed(f)]
        ELSE IF ShortBatch(rows, effectiveLimit) \/ CapReached(input, j2.totalRows)
             THEN [job |-> j2, file |-> Closed(f2)]
        ELSE RunAlone(j2, f2)

\* what a run of the call leaves when it is the only one
Alone == RunAlone(NewJob(1), Opened(InitialFile("db_export_batch", input)))

AllDone == \A r \in Runs : pc[r] = "done"

AsAlone(r) ==
    (pc[r] = "done" /\ result[r].ok) =>
        /\ result[r].totalRows = Alone.job.totalRows
        /\ result[r].batchCount = Alone.job.batchCount
        /\ AllDone => file[PathOf(r)] = Alone.file

\* C13: interleaved runs do not interfere: each completed run reports the
\* totalRows and batchCount, and leaves in its file the bytes, of a run alone
C13_RunsDoNotInterfere ==
    tool = "concurrent" => \A r \in Runs : AsAlone(r)

\* what holds of the code: runs that write to different files do not interfere
C13_DistinctFilesDoNotInterfere ==
    (tool = "concurrent" /\ ~input.clash) => \A r \in Runs : AsAlone(r)

\* what holds of the code: the totals a run reports never depend on the others
C13_TotalsAsAlone ==
    tool = "concurrent" =>
        \A r \in Runs : (pc[r] = "done" /\ result[r].ok) =>
            /\ result[r].totalRows = Alone.job.totalRows
            /\ result[r].batchCount = Alone.job.batchCount

\* two runs on different files have completed after interleaving their batches
C13_Interleaved ==
    /\ tool = "concurrent" /\ ~input.clash /\ AllDone
    /\ \A r \in Runs : result[r].ok /\ result[r].batchCount >= 2

(***************************************************************************)
(* C14                                                                     *)
(***************************************************************************)
\* how many times word stands in s as a whole word, in any letter case
CountWord(s, word) ==
    Cardinality({i \in 1..Len(s) :
        /\ MatchAt(toUpperCase(s), i, word)
        /\ ~IsWordChar(CharAt(s, i - 1))
        /\ ~IsWordChar(CharAt(s, i + Len(word)))})

\* the query in flight ends with the framing of the engine
EndsWithFraming ==
    endsWith(LastIssued.sql, " LIMIT " \o NumberToString(job.effectiveLimit)
                             \o " OFFSET " \o NumberToString(job.offset))

\* C14: the base query holds no LIMIT and no OFFSET of the caller, and every
\* query sent holds exactly one LIMIT and one OFFSET, the engine's, at its end
C14_EngineOwnsFraming ==
    InLoop =>
        /\ CountWord(job.baseQuery, "LIMIT") = 0
        /\ CountWord(job.baseQuery, "OFFSET") = 0
        /\ \A k \in 1..Len(issued) :
               /\ CountWord(issued[k].sql, "LIMIT") = 1
               /\ CountWord(issued[k].sql, "OFFSET") = 1
        /\ pc = "querying" => EndsWithFraming

\* what holds of the code: a caller's LIMIT n [OFFSET m] is stripped, and the
\* engine's framing ends every query
C14_LimitStrippedFramingLast ==
    InLoop =>
        /\ CountWord(job.baseQuery, "LIMIT") = 0
        /\ \A k \in 1..Len(issued) : CountWord(issued[k].sql, "LIMIT") = 1
        /\ pc = "querying" => EndsWithFraming

\* a statement with LIMIT 5 OFFSET 2 of its own has been stripped and sent
C14_CallerLimitStripped ==
    /\ InLoop /\ pc = "querying"
    /\ CountWord(sql, "LIMIT") = 1 /\ CountWord(sql, "OFFSET") = 1
    /\ CountWord(job.baseQuery, "OFFSET") = 0

(***************************************************************************)
(* enforceLimit on its own, as dbQuery and dbRunFile call it: on the       *)
(* normalized form of a statement validateQuery accepted.  The statement   *)
(* is put together from a start and an end; the end may hold a LIMIT.      *)
(***************************************************************************)
MaxExisting == 3    \* the numbers a LIMIT of the caller carries: 0 .. MaxExisting

EnforceHeads ==
    { "SELECT a FROM t",
      "WITH r AS (SELECT a FROM t) SELECT a FROM r",
      "EXPLAIN SELECT a FROM t",
      "SHOW TABLES",
      "SELECT a FROM (SELECT a FROM t LIMIT 1) s",
      "SELECT a FROM (SELECT a FROM t)",
      "SELECT a FROM t WHERE b = 'no limit set'",
      "DROP TABLE t" }

EnforceTails ==
    {"", ";"}
    \cup {sep \o kw \o " " \o NumberToString(n) \o end :
              sep \in {" ", ""}, kw \in {"LIMIT", "limit"},
              n \in 0..MaxExisting, end \in {"", ";", " OFFSET 1"}}

EnforceInputs == {h \o t : h \in EnforceHeads, t \in EnforceTails}

InitEnforce ==
    /\ tool = "enforceLimit"
    /\ pc = "start"
    /\ sql \in EnforceInputs
    /\ allowedStatements = ALLOWED_PREFIXES
    /\ input \in [maxLimit : 0..MaxLimit]
    /\ validation = NoResult
    /\ stmt = ""
    /\ connected = FALSE
    /\ issued = << >>
    /\ file = NoFile
    /\ writes = << >>
    /\ result = NoResult
    /\ job = NoJob

\* validateQuery, then enforceLimit(validation.normalized, maxLimit)
EnforceCall ==
    /\ tool = "enforceLimit" /\ pc = "start"
    /\ LET v == validateQuery(sql, allowedStatements)
       IN  /\ validation' = v
           /\ IF v.valid
              THEN stmt' = enforceLimit(v.normalized, input.maxLimit) /\ pc' = "enforced"
              ELSE stmt' = stmt /\ pc' = "done"
    /\ UNCHANGED <<tool, sql, allowedStatements, input, connected, issued, file, writes,
                   result, job>>

\* enforceLimit applied to its own output
EnforceAgain ==
    /\ tool = "enforceLimit" /\ pc = "enforced"
    /\ result' = [again |-> enforceLimit(stmt, input.maxLimit)]
    /\ pc' = "done"
    /\ UNCHANGED <<tool, sql, allowedStatements, input, validation, stmt, connected,
                   issued, file, writes, job>>

NextEnforce == EnforceCall \/ EnforceAgain

SpecEnforce == InitEnforce /\ [][NextEnforce]_vars

\* enforceLimit has been applied to an accepted statement
Enforced == tool = "enforceLimit" /\ pc \in {"enforced", "done"} /\ validation.valid

(***************************************************************************)
(* C15                                                                     *)
(***************************************************************************)
\* the places of s where a LIMIT with a number stands: the word LIMIT in any
\* letter case, whitespace, digits
NumericLimits(s) ==
    {i \in 1..Len(s) :
        /\ MatchAt(toUpperCase(s), i, "LIMIT")
        /\ ~IsWordChar(CharAt(s, i - 1))
        /\ IsSpace(CharAt(s, i + 5))
        /\ IsDigit(CharAt(s, SkipSpaces(s, i + 5)))}

\* the number of the LIMIT at place i
LimitValue(s, i) ==
    parseInt(SubSeq(s, SkipSpaces(s, i + 5), SkipDigits(s, SkipSpaces(s, i + 5)) - 1))

LimitsAbove(s, n) == {i \in NumericLimits(s) : LimitValue(s, i) > n}

\* C15: of an accepted statement with a numeric LIMIT above maxLimit,
\* enforceLimit returns a statement that holds LIMIT <maxLimit> and in which
\* no LIMIT with a number above maxLimit is left
C15_NoLimitAboveMax ==
    (Enforced /\ LimitsAbove(validation.normalized, input.maxLimit) # {}) =>
        /\ includes(stmt, "LIMIT " \o NumberToString(input.maxLimit))
        /\ LimitsAbove(stmt, input.maxLimit) = {}

\* what holds of the code: a statement whose only numeric LIMIT is above
\* maxLimit and follows a blank has that LIMIT replaced by maxLimit
C15_OnlyLimitClamped ==
    (/\ Enforced
     /\ Cardinality(NumericLimits(validation.normalized)) = 1
     /\ LimitsAbove(validation.normalized, input.maxLimit) # {}
     /\ \A i \in NumericLimits(validation.normalized) : CharAt(validation.normalized, i - 1) = " ")
    => /\ includes(stmt, "LIMIT " \o NumberToString(input.maxLimit))
       /\ LimitsAbove(stmt, input.maxLimit) = {}
       /\ Cardinality(NumericLimits(stmt)) = 1

\* a statement with one LIMIT above maxLimit has been clamped
C15_Clamped ==
    /\ Enforced
    /\ Cardinality(NumericLimits(validation.normalized)) = 1
    /\ LimitsAbove(validation.normalized, input.maxLimit) # {}
    /\ LimitsAbove(stmt, input.maxLimit) = {}

(***************************************************************************)
(* C16                                                                     *)
(***************************************************************************)
BeginsExplainOrShow(s) ==
    startsWith(toUpperCase(s), "EXPLAIN") \/ startsWith(toUpperCase(s), "SHOW")

\* place i of s lies inside a string literal '...'
InLiteral(s, i) == CountChar(SubSeq(s, 1, i - 1), "'") % 2 = 1

\* the places of s where the word LIMIT stands as SQL, not as text of a literal
LimitWords(s) ==
    {i \in 1..Len(s) :
        /\ MatchAt(toUpperCase(s), i, "LIMIT")
        /\ ~IsWordChar(CharAt(s, i - 1))
        /\ ~IsWordChar(CharAt(s, i + 5))
        /\ ~InLiteral(s, i)}

HasLimitClause(s) == LimitWords(s) # {}

\* the statement without its final ';', with LIMIT <maxLimit> after it
LimitAppended(s, maxLimit) ==
    dropTrailingSemicolon(s) \o " LIMIT " \o NumberToString(maxLimit)

\* C16: no LIMIT is appended to a statement that begins with EXPLAIN or SHOW;
\* any other accepted statement without a LIMIT clause, WITH included, loses
\* its final ';' and gets LIMIT <maxLimit> once, at its very end
C16_LimitAppendedAtEnd ==
    Enforced =>
        /\ BeginsExplainOrShow(validation.normalized) =>
              /\ Len(stmt) <= Len(validation.normalized)
              /\ Cardinality(LimitWords(stmt)) = Cardinality(LimitWords(validation.normalized))
        /\ (~BeginsExplainOrShow(validation.normalized) /\ ~HasLimitClause(validation.normalized))
              => stmt = LimitAppended(validation.normalized, input.maxLimit)

\* what holds of the code: the same, for statements in which the text
\* " LIMIT " does not occur at all, inside a literal or outside
C16_AppendedUnlessLimitText ==
    Enforced =>
        /\ BeginsExplainOrShow(validation.normalized) =>
              /\ Len(stmt) <= Len(validation.normalized)
              /\ Cardinality(LimitWords(stmt)) = Cardinality(LimitWords(validation.normalized))
        /\ (/\ ~BeginsExplainOrShow(validation.normalized)
            /\ ~includes(toUpperCase(validation.normalized), " LIMIT "))
              => stmt = LimitAppended(validation.normalized, input.maxLimit)

\* a WITH statement ending in ';' has got its LIMIT after the main query
C16_AppendedToWith ==
    /\ Enforced
    /\ startsWith(validation.normalized, "WITH") /\ endsWith(validation.normalized, ";")
    /\ ~HasLimitClause(validation.normalized)
    /\ stmt = LimitAppended(validation.normalized, input.maxLimit)

(***************************************************************************)
(* C17                                                                     *)
(***************************************************************************)
\* enforceLimit has been applied to its own output
EnforcedTwice == Enforced /\ pc = "done"

\* C17: enforceLimit(enforceLimit(sql, N), N) = enforceLimit(sql, N) for every
\* accepted statement in its normalized form
C17_Idempotent ==
    EnforcedTwice => result.again = stmt

\* the places of s where /LIMIT\s+\d+/i matches
LimitMatches(s) ==
    {i \in 1..Len(s) :
        /\ MatchAt(toUpperCase(s), i, "LIMIT")
        /\ IsSpace(CharAt(s, i + 5))
        /\ IsDigit(CharAt(s, SkipSpaces(s, i + 5)))}

\* what holds of the code: idempotence on statements in which every match of
\* /LIMIT\s+\d+/i follows a blank
C17_IdempotentOnSpacedLimits ==
    (/\ EnforcedTwice
     /\ \A i \in LimitMatches(validation.normalized) : CharAt(validation.normalized, i - 1) = " ")
    => result.again = stmt

\* a LIMIT above maxLimit was clamped and the second application changed nothing
C17_ClampedThenUnchanged ==
    /\ EnforcedTwice
    /\ LimitsAbove(validation.normalized, input.maxLimit) # {}
    /\ stmt # validation.normalized
    /\ result.again = stmt

(***************************************************************************)
(* C18                                                                     *)
(***************************************************************************)
\* rows 0 .. n-1 of the relation
RowsUpTo(n) == [k \in 1..n |-> Row(k - 1)]

\* a batch export of the given format has completed
Completed(format) ==
    Batch /\ input.format = format /\ InLoop /\ pc = "done" /\ result.ok

\* the fs calls of the run that carry exactly data
CallsWith(data) == {k \in 1..Len(writes) : writes[k].data = data}

\* C18: a completed json export leaves one JSON array: "[\n" written once
\* before the first batch, "\n]" once after the last, totalRows elements, and
\* a "," between any two consecutive rows, also with zero rows
C18_JsonIsOneArray ==
    Completed("json") =>
        /\ file.content = "[\n" \o joinMap(RowsUpTo(result.totalRows), "indent", ",\n") \o "\n]"
        /\ CallsWith("[\n") = {1} /\ writes[1].op = "write"
        /\ CallsWith("\n]") = {Len(writes)}
        /\ \A k \in 2..Len(writes) : writes[k].op = "append"
        /\ CountChar(file.content, "{") = result.totalRows
        /\ CountChar(file.content, ",") = max(0, result.totalRows - 1)

\* a json export of several batches has completed onto an older file
C18_Witness ==
    /\ Completed("json")
    /\ result.batchCount >= 2
    /\ input.stale

(***************************************************************************)
(* C19                                                                     *)
(***************************************************************************)
\* the lines of s, each with its line break
LineCount(s) == CountChar(s, "\n")

C20_JsonlOnePerLine ==
    (Batch /\ input.format = "jsonl" /\ InLoop) =>
        /\ DataOf(writes) = joinMap(RowsUpTo(job.totalRows), "json", "\n")
        /\ LineCount(DataOf(writes)) = max(0, job.totalRows - 1)
        /\ ~endsWith(DataOf(writes), "\n")
        /\ ~includes(DataOf(writes), "\n\n")
        /\ CountChar(DataOf(writes), "[") = 0 /\ CountChar(DataOf(writes), "]") = 0
        /\ \A k \in 1..Len(writes) : writes[k].op = "append"
        /\ file.content = (IF input.stale THEN StaleContent ELSE "") \o DataOf(writes)

\* a jsonl export of several batches has completed
C20_Witness ==
    /\ Completed("jsonl")
    /\ result.batchCount >= 2
    /\ result.totalRows > input.batchSize

(***************************************************************************)
(* C21                                                                     *)
(***************************************************************************)
\* the statement, once trimmed, begins with a blocked keyword as a whole word
FirstWordBlocked(s) ==
    \E k \in 1..Len(BLOCKED_KEYWORDS) :
        /\ WordEnd(trim(s), 1, BLOCKED_KEYWORDS[k]) # 0
        /\ ~IsWordChar(CharAt(trim(s), WordEnd(trim(s), 1, BLOCKED_KEYWORDS[k])))

\* the reason names a blocked keyword that occurs in the statement
ReportsBlockedKeyword(s, outcome) ==
    \E k \in 1..Len(BLOCKED_KEYWORDS) :
        /\ OccursAsWholeWord(s, BLOCKED_KEYWORDS[k])
        /\ outcome.error = "Blocked keyword detected: " \o BLOCKED_KEYWORDS[k]
                           \o ". Only read operations are allowed."

C21_ReportedUnderOwnPrefix ==
    /\ Validated
    /\ startsWith(trim(sql), "drop")
    /\ FirstWordBlocked(sql)
    /\ ReportsBlockedKeyword(sql, validation)

(***************************************************************************)
(* C22                                                                     *)
(***************************************************************************)
\* a blocked keyword is found in the text, in any letter case, at a place
\* where it is part of a longer word
KeywordInsideWord(s) ==
    \E k \in 1..Len(BLOCKED_KEYWORDS) : \E i \in 1..Len(s) :
        /\ WordEnd(s, i, BLOCKED_KEYWORDS[k]) # 0
        /\ \/ IsWordChar(CharAt(s, i - 1))
           \/ IsWordChar(CharAt(s, WordEnd(s, i, BLOCKED_KEYWORDS[k])))

\* every check of validateQuery but the one on blocked keywords
ChecksButKeywordsPass(s, allowed) ==
    /\ Normalize(s) # ""
    /\ Len(Normalize(s)) <= MaxQueryLength
    /\ startsWithAllowed(toUpperCase(Normalize(s)), allowed)
    /\ ~DANGEROUS_PATTERNS(Normalize(s))
    /\ ~MultipleStatements(Normalize(s))

\* C22: a statement that passes every other check and in which blocked
\* keywords occur only inside longer words (never as a whole word) is
\* accepted by validateQuery
C22_KeywordInsideWordAccepted ==
    (Validated /\ ChecksButKeywordsPass(sql, allowedStatements)
               /\ KeywordInsideWord(sql) /\ ~HasBlockedWord(sql))
        => validation.valid

\* the documented example: a column whose name holds DELETE has been accepted
C22_Witness ==
    /\ Validated
    /\ sql = "SELECT deleted_at FROM events"
    /\ KeywordInsideWord(sql)
    /\ validation.valid

\* the keyword inside a word is not what rejects this statement: the pattern
\* /COPY\s+.*\s+TO/i does
C22_RejectedByPattern ==
    /\ Validated
    /\ sql = "SELECT xcopy AS total FROM t"
    /\ allowedStatements = ALLOWED_PREFIXES
    /\ validation = Rejected("Potentially dangerous SQL pattern detected")

(***************************************************************************)
(* security/identifier.ts on its own: validateIdentifier on one name,      *)
(* validateIdentifiers on a list of names, quoteIdentifier on a name and   *)
(* then on its own output                                                  *)
(***************************************************************************)
MaxNames == 2       \* names in a list given to validateIdentifiers: 0 .. MaxNames

RECURSIVE Repeat(_, _)
Repeat(c, n) == IF n = 0 THEN "" ELSE c \o Repeat(c, n - 1)

IdentifierNames ==
    {"a", " a ", "t1", "1t", "select", "a b", "a\"b", "\"a\"", "a\"\"", "", "_",
     Repeat("a", MAX_IDENTIFIER_LENGTH), Repeat("a", MAX_IDENTIFIER_LENGTH + 1)}

IdentifierTypes == {"table", "column", "schema"}

RECURSIVE NameLists(_)
NameLists(n) ==
    IF n = 0 THEN {<< >>}
    ELSE NameLists(n - 1)
         \cup {Append(l, x) : l \in {m \in NameLists(n - 1) : Len(m) = n - 1},
                              x \in IdentifierNames}

IdentifierInputs ==
    [tool : {"validateIdentifier"}, identifier : IdentifierNames, type : IdentifierTypes]
    \cup [tool : {"validateIdentifiers"}, identifiers : NameLists(MaxNames),
          type : IdentifierTypes]
    \cup [tool : {"quoteIdentifier"}, identifier : IdentifierNames]

InitIdentifier ==
    /\ input \in IdentifierInputs
    /\ tool = input.tool
    /\ pc = "start"
    /\ sql = ""
    /\ allowedStatements = ALLOWED_PREFIXES
    /\ validation = NoResult
    /\ stmt = ""
    /\ connected = FALSE
    /\ issued = << >>
    /\ file = NoFile
    /\ writes = << >>
    /\ result = NoResult
    /\ job = NoJob

validateIdentifierCall ==
    /\ tool = "validateIdentifier" /\ pc = "start"
    /\ validation' = validateIdentifier(input.identifier, input.type)
    /\ pc' = "done"
    /\ UNCHANGED <<tool, sql, allowedStatements, input, stmt, connected, issued, file,
                   writes, result, job>>

validateIdentifiersCall ==
    /\ tool = "validateIdentifiers" /\ pc = "start"
    /\ validation' = validateIdentifiers(input.identifiers, input.type)
    /\ pc' = "done"
    /\ UNCHANGED <<tool, sql, allowedStatements, input, stmt, connected, issued, file,
                   writes, result, job>>

\* `"${identifier.replace(/"/g, '""')}"`
quoteIdentifierUnescaped(identifier) == "\"" \o identifier \o "\""
quoteIdentifier(identifier) == "\"" \o doubleQuotes(identifier) \o "\""

quoteIdentifierCall ==
    /\ tool = "quoteIdentifier" /\ pc = "start"
    /\ stmt' = quoteIdentifier(input.identifier)
    /\ pc' = "quoted"
    /\ UNCHANGED <<tool, sql, allowedStatements, input, validation, connected, issued,
                   file, writes, result, job>>

\* the caller quotes what it was given back
quoteIdentifierAgain ==
    /\ tool = "quoteIdentifier" /\ pc = "quoted"
    /\ result' = [again |-> quoteIdentifier(stmt)]
    /\ pc' = "done"
    /\ UNCHANGED <<tool, sql, allowedStatements, input, validation, stmt, connected,
                   issued, file, writes, job>>

NextIdentifier ==
    \/ validateIdentifierCall
    \/ validateIdentifiersCall
    \/ quoteIdentifierCall
    \/ quoteIdentifierAgain

SpecIdentifier == InitIdentifier /\ [][NextIdentifier]_vars

(***************************************************************************)
(* C23                                                                     *)
(***************************************************************************)
\* ^[A-Za-z_][A-Za-z0-9_]*$
IdentifierGrammar(s) ==
    /\ s # ""
    /\ CharAt(s, 1) \in CharsOf(Lowers) \cup CharsOf(Uppers) \cup {"_"}
    /\ \A i \in 1..Len(s) :
           CharAt(s, i) \in CharsOf(Lowers) \cup CharsOf(Uppers) \cup CharsOf(Digits) \cup {"_"}

SanitizedIsIdentifier(outcome) ==
    /\ ~outcome.valid => "sanitized" \notin DOMAIN outcome
    /\ "sanitized" \in DOMAIN outcome =>
        /\ IdentifierGrammar(outcome.sanitized)
        /\ Len(outcome.sanitized) <= 63
        /\ ~includes(outcome.sanitized, "\"")

\* C23: whatever validateIdentifier or validateIdentifiers returns, a rejected
\* outcome carries no sanitized name, and a sanitized name matches
\* ^[A-Za-z_][A-Za-z0-9_]*$, is at most 63 characters long and holds no quote
C23_SanitizedIsIdentifier ==
    (tool \in {"validateIdentifier", "validateIdentifiers"} /\ pc = "done")
        => SanitizedIsIdentifier(validation)

\* it holds of validateIdentifier, which returns the trimmed name
C23_OfOneName ==
    (tool = "validateIdentifier" /\ pc = "done") => SanitizedIsIdentifier(validation)

\* a name with blanks around it has been accepted and returned trimmed
C23_Trimmed ==
    /\ tool = "validateIdentifier" /\ pc = "done"
    /\ validation.valid
    /\ validation.sanitized # input.identifier

\* validateIdentifiers returns the names as given, joined with ", "
C23_ListJoinedAsGiven ==
    (tool = "validateIdentifiers" /\ pc = "done" /\ validation.valid)
        => validation.sanitized = join(input.identifiers, ", ")

(***************************************************************************)
(* C24                                                                     *)
(***************************************************************************)
\* s without its first and its last character
Inside(s) == SubSeq(s, 2, Len(s) - 1)

RECURSIVE halveQuotes(_)
\* every pair "" read as one quote; "?" where a quote stands alone
halveQuotes(s) ==
    IF s = "" THEN ""
    ELSE IF SubSeq(s, 1, 1) # "\"" THEN SubSeq(s, 1, 1) \o halveQuotes(SubSeq(s, 2, Len(s)))
    ELSE IF SubSeq(s, 2, 2) = "\"" THEN "\"" \o halveQuotes(SubSeq(s, 3, Len(s)))
    ELSE "?" \o halveQuotes(SubSeq(s, 2, Len(s)))

\* quoted is name between double quotes with every quote of name doubled
QuotedFormOf(quoted, name) ==
    /\ Len(quoted) = Len(name) + CountChar(name, "\"") + 2
    /\ CharAt(quoted, 1) = "\"" /\ CharAt(quoted, Len(quoted)) = "\""
    /\ halveQuotes(Inside(quoted)) = name

\* C24 as stated: quoteIdentifier wraps the name in double quotes and doubles
\* every embedded double quote, and quoting its output returns that output
C24_QuoteIdempotent ==
    (tool = "quoteIdentifier" /\ pc = "done") =>
        /\ QuotedFormOf(stmt, input.identifier)
        /\ result.again = stmt

\* C24: quoteIdentifier wraps the name in double quotes and doubles every
\* embedded double quote; applied to its own output it quotes that output
\* again, and the second result is never the first
C24_QuoteWrapsAndDoubles ==
    (tool = "quoteIdentifier" /\ pc = "done") =>
        /\ QuotedFormOf(stmt, input.identifier)
        /\ QuotedFormOf(result.again, stmt)
        /\ result.again # stmt

\* a name that holds a double quote has been quoted, and quoted again
C24_Witness ==
    /\ tool = "quoteIdentifier" /\ pc = "done"
    /\ includes(input.identifier, "\"")
    /\ Len(stmt) > Len(input.identifier) + 2

(***************************************************************************)
(* C25                                                                     *)
(***************************************************************************)
\* the number of "(" less the number of ")" in front of place i
Depth(s, i) == CountChar(SubSeq(s, 1, i - 1), "(") - CountChar(SubSeq(s, 1, i - 1), ")")

\* the statement ends, outside every parenthesis, with LIMIT <k> for a k of at
\* most n (an OFFSET <m> and a final ';' may follow)
EndsWithLimitAtMost(s, n) ==
    \E i \in NumericLimits(s) :
        /\ Depth(s, i) = 0
        /\ ~InLiteral(s, i)
        /\ LimitValue(s, i) <= n
        /\ SubSeq(s, LimitClauseEnd(toUpperCase(s), i), Len(s)) \in {"", ";"}

\* C25: every statement db_query sends to the executor that does not begin
\* with EXPLAIN or SHOW ends with an outermost LIMIT of at most
\* min(limit, security.maxRowLimit)
C25_QueryRowBounded ==
    tool = "db_query" =>
        \A i \in 1..Len(issued) :
            ~BeginsExplainOrShow(issued[i].sql)
                => EndsWithLimitAtMost(issued[i].sql, min(input.limit, input.maxRowLimit))

\* it holds of the statements in which the caller wrote no LIMIT of a subquery
C25_BoundedWithoutInnerLimit ==
    tool = "db_query" =>
        \A i \in 1..Len(issued) :
            (~BeginsExplainOrShow(issued[i].sql)
             /\ \A k \in NumericLimits(sql) : Depth(sql, k) = 0)
                => EndsWithLimitAtMost(issued[i].sql, min(input.limit, input.maxRowLimit))

\* a caller's final LIMIT above the bound has been clamped before the query
C25_Clamped ==
    /\ tool = "db_query"
    /\ Len(issued) = 1
    /\ includes(sql, "limit 5")
    /\ EndsWithLimitAtMost(issued[1].sql, min(input.limit, input.maxRowLimit))

(***************************************************************************)
(* C26                                                                     *)
(***************************************************************************)
\* the call went on to the connection with the caller's statement
AcceptedForExecution == Checked /\ validation.valid /\ connected

\* C26: a statement that db_query, db_explain, db_run_file or db_export_batch
\* accepts for execution begins, in any letter case, with one of the prefixes
\* of the project's security.allowedStatements
C26_ConfiguredPrefixesOnly ==
    (tool \in QueryTools /\ AcceptedForExecution)
        => BeginsWithAllowed(trim(sql), allowedStatements)

\* it holds of db_query, which hands the configured prefixes to validateQuery
C26_QueryHonoursConfiguration ==
    (tool = "db_query" /\ AcceptedForExecution)
        => BeginsWithAllowed(trim(sql), allowedStatements)

\* under a configuration narrowed to SELECT, db_query has rejected a WITH
C26_NarrowedRejects ==
    /\ tool = "db_query" /\ pc = "done"
    /\ allowedStatements = << "SELECT" >>
    /\ startsWith(sql, "WITH")
    /\ result = error("Query validation failed: Query must start with one of: SELECT")

(***************************************************************************)
(* C27                                                                     *)
(***************************************************************************)
Ceil(a, b) == (a + b - 1) \div b

Queries == Cardinality({k \in 1..Len(issued) : issued[k].op = "query"})

\* C27: a batch export ends: each of its steps returns the result or sends one
\* more query (the first goes from validation to the connection), and a run
\* with a row cap of at least 1 sends at most ceil(maxRows / batchSize)
\* queries, a run without a row cap over n rows at most
\* floor(n / batchSize) + 1
C27_LoopTerminates ==
    /\ [][tool = "db_export_batch" =>
            /\ pc # "done"
            /\ \/ pc' = "done"
               \/ Queries' = Queries + 1
               \/ pc = "start" /\ pc' = "connecting" /\ Queries' = Queries]_vars
    /\ [](tool = "db_export_batch" =>
            /\ MaxRowsTruthy(input) => Queries <= Ceil(input.maxRows, input.batchSize)
            /\ ~MaxRowsGiven(input) => Queries <= (input.rows \div input.batchSize) + 1)

\* a capped run has ended after as many queries as the bound allows, more
\* than one
C27_CappedRunEnded ==
    /\ tool = "db_export_batch" /\ pc = "done"
    /\ MaxRowsTruthy(input)
    /\ Queries = Ceil(input.maxRows, input.batchSize)
    /\ Queries > 1
    /\ result.ok

\* a run without a cap has ended after floor(n / batchSize) + 1 queries, the
\* last of which found no row
C27_UncappedRunEnded ==
    /\ tool = "db_export_batch" /\ pc = "done"
    /\ ~MaxRowsGiven(input)
    /\ Queries = (input.rows \div input.batchSize) + 1
    /\ Queries > 2
    /\ result.ok
    /\ result.totalRows = input.rows

(***************************************************************************)
(* C28                                                                     *)
(***************************************************************************)
\* C28: after a batch export that completes, in any of the three formats and
\* also with zero rows, the file named in the result exists and holds what
\* this run wrote and nothing of what was at the output path before
C28_FileHoldsOnlyThisRun ==
    \A format \in Formats :
        Completed(format) =>
            /\ result.filepath = Filepath(input)
            /\ file.exists
            /\ file.content = DataOf(writes)

\* it holds of json, which opens the file with writeFileSync, and of a csv
\* export of at least one row, whose header is put down with writeFileSync
C28_ReplacedWhenWritten ==
    \A format \in Formats :
        (Completed(format) /\ (format = "json" \/ (format = "csv" /\ result.totalRows > 0)))
            => file.exists /\ file.content = DataOf(writes)

\* jsonl only appends: what was at the output path stays in front
C28_JsonlAppendsToOlderFile ==
    /\ Completed("jsonl")
    /\ input.stale
    /\ result.totalRows > 0
    /\ file.content = StaleContent \o DataOf(writes)

\* with zero rows csv and jsonl write nothing: no file where there was none
C28_NoFileForZeroRows ==
    /\ Completed("csv")
    /\ ~input.stale
    /\ result.totalRows = 0
    /\ ~file.exists

(***************************************************************************)
(* drivers/index.ts: the cache of drivers, under calls that run between    *)
(* one another's awaits.  Read for this specification, the variables hold  *)
(*   input       the calls: call |-> [op, key]                             *)
(*   pc, stmt, validation, result                                          *)
(*               of each call: its place, its local driver, the place of   *)
(*               its iterator, what it returned (0: nothing, -1: it threw) *)
(*   job         driverInstances, the entries in insertion order           *)
(*   issued      the key each driver was created for, in creation order    *)
(*   connected   driver |-> its `connected` field                          *)
(*   writes      the calls in the order of their completion                *)
(***************************************************************************)
MaxCalls == 3       \* calls made in one run of the server

Calls == 1..MaxCalls

ConnectionKeys == {"postgres-js:db1", "postgres-js:db2"}

CallKinds ==
    [op : {"getDriverWithConnection"}, key : ConnectionKeys] \cup [op : {"disconnectAll"}]

\* disconnectAll is called by shutdown(), once
CallSets ==
    {f \in [Calls -> CallKinds] :
        Cardinality({c \in Calls : f[c].op = "disconnectAll"}) <= 1}

InitDrivers ==
    /\ tool = "drivers"
    /\ input \in CallSets
    /\ pc = [c \in Calls |-> "start"]
    /\ stmt = [c \in Calls |-> 0]
    /\ validation = [c \in Calls |-> 0]
    /\ result = [c \in Calls |-> 0]
    /\ job = << >>
    /\ issued = << >>
    /\ connected = [d \in Calls |-> FALSE]
    /\ writes = << >>
    /\ sql = ""
    /\ allowedStatements = ALLOWED_PREFIXES
    /\ file = NoFile

\* driverInstances.has(key), .get(key), .set(key, driver)
MapHas(m, key) == \E i \in 1..Len(m) : m[i].key = key
MapGet(m, key) == m[CHOOSE i \in 1..Len(m) : m[i].key = key].driver
MapSet(m, key, driver) ==
    IF MapHas(m, key)
    THEN [i \in 1..Len(m) |-> IF m[i].key = key THEN [key |-> key, driver |-> driver] ELSE m[i]]
    ELSE Append(m, [key |-> key, driver |-> driver])

Returns(c, r) ==
    /\ pc' = [pc EXCEPT ![c] = "done"]
    /\ result' = [result EXCEPT ![c] = r]
    /\ writes' = Append(writes, c)

\* lines 162-175, up to the await of connectWithConfig
getDriverWithConnectionCall(c) ==
    /\ input[c].op = "getDriverWithConnection" /\ pc[c] = "start"
    /\ LET key == input[c].key
       IN  IF MapHas(job, key)
           THEN IF connected[MapGet(job, key)]
                THEN /\ Returns(c, MapGet(job, key))
                     /\ UNCHANGED <<stmt, issued>>
                ELSE /\ stmt' = [stmt EXCEPT ![c] = MapGet(job, key)]
                     /\ pc' = [pc EXCEPT ![c] = "reconnecting"]
                     /\ UNCHANGED <<issued, result, writes>>
           ELSE /\ issued' = Append(issued, key)
                /\ stmt' = [stmt EXCEPT ![c] = Len(issued) + 1]
                /\ pc' = [pc EXCEPT ![c] = "connecting"]
                /\ UNCHANGED <<result, writes>>
    /\ UNCHANGED <<tool, sql, allowedStatements, input, validation, connected, file, job>>

\* connectWithConfig: `await this.client`SELECT 1`` resolves, connected = true
connectResolves(c) ==
    /\ pc[c] \in {"connecting", "reconnecting"}
    /\ connected' = [connected EXCEPT ![stmt[c]] = TRUE]
    /\ pc' = [pc EXCEPT ![c] = IF pc[c] = "connecting" THEN "connected" ELSE "reconnected"]
    /\ UNCHANGED <<tool, sql, allowedStatements, input, validation, stmt, issued, file,
                   writes, result, job>>

\* connectWithConfig rejects: getDriverWithConnection throws
connectRejects(c) ==
    /\ pc[c] \in {"connecting", "reconnecting"}
    /\ Returns(c, -1)
    /\ UNCHANGED <<tool, sql, allowedStatements, input, validation, stmt, connected,
                   issued, file, job>>

\* lines 171 and 176-178: after the await
getDriverWithConnectionReturn(c) ==
    /\ pc[c] \in {"connected", "reconnected"}
    /\ job' = IF pc[c] = "connected" THEN MapSet(job, input[c].key, stmt[c]) ELSE job
    /\ Returns(c, stmt[c])
    /\ UNCHANGED <<tool, sql, allowedStatements, input, validation, stmt, connected,
                   issued, file>>

\* lines 187-192 from entry `from` on, up to the next await or to the end
disconnectAllLoop(c, from) ==
    LET live == {i \in from..Len(job) : connected[job[i].driver]}
        next == CHOOSE i \in live : \A k \in live : i <= k
    IN  IF live # {}
        THEN /\ validation' = [validation EXCEPT ![c] = next]
             /\ stmt' = [stmt EXCEPT ![c] = job[next].driver]
             /\ pc' = [pc EXCEPT ![c] = "disconnecting"]
             /\ UNCHANGED <<job, result, writes>>
        ELSE /\ job' = << >>
             /\ Returns(c, 0)
             /\ UNCHANGED <<validation, stmt>>

disconnectAllCall(c) ==
    /\ input[c].op = "disconnectAll" /\ pc[c] = "start"
    /\ disconnectAllLoop(c, 1)
    /\ UNCHANGED <<tool, sql, allowedStatements, input, connected, issued, file>>

\* disconnect(): `await this.client.end()` resolves, connected = false
disconnectResolves(c) ==
    /\ pc[c] = "disconnecting"
    /\ connected' = [connected EXCEPT ![stmt[c]] = FALSE]
    /\ pc' = [pc EXCEPT ![c] = "disconnected"]
    /\ UNCHANGED <<tool, sql, allowedStatements, input, validation, stmt, issued, file,
                   writes, result, job>>

disconnectAllContinue(c) ==
    /\ pc[c] = "disconnected"
    /\ disconnectAllLoop(c, validation[c] + 1)
    /\ UNCHANGED <<tool, sql, allowedStatements, input, connected, issued, file>>

NextDrivers ==
    \E c \in Calls :
        \/ getDriverWithConnectionCall(c)
        \/ connectResolves(c)
        \/ connectRejects(c)
        \/ getDriverWithConnectionReturn(c)
        \/ disconnectAllCall(c)
        \/ disconnectResolves(c)
        \/ disconnectAllContinue(c)

SpecDrivers == InitDrivers /\ [][NextDrivers]_vars

(***************************************************************************)
(* C29                                                                     *)
(***************************************************************************)
Quiet == \A c \in Calls : pc[c] \in {"start", "done"}

Drivers == 1..Len(issued)

Cached(d) == \E i \in 1..Len(job) : job[i].key = issued[d] /\ job[i].driver = d

DisconnectBegun == \E c \in Calls : input[c].op = "disconnectAll" /\ pc[c] # "start"

\* the last call to complete was disconnectAll, and none has begun since
DisconnectedLast ==
    /\ Quiet
    /\ writes # << >>
    /\ input[writes[Len(writes)]].op = "disconnectAll"
    /\ \A c \in Calls : pc[c] = "done"

\* C29: with no call in flight, every connected driver is in the cache under
\* its key; as long as nothing was disconnected, the calls with one key have
\* returned one instance; and when disconnectAll completed last, no driver is
\* connected and the cache is empty
C29_CacheCoherent ==
    tool = "drivers" =>
        /\ Quiet => \A d \in Drivers : connected[d] => Cached(d)
        /\ ~DisconnectBegun =>
              \A c1, c2 \in Calls :
                  (pc[c1] = "done" /\ pc[c2] = "done" /\ result[c1] > 0 /\ result[c2] > 0
                   /\ input[c1].key = input[c2].key) => result[c1] = result[c2]
        /\ DisconnectedLast => (job = << >> /\ \A d \in Drivers : ~connected[d])

\* a driver is created only at a moment when its key is not in the cache
C29_CreatedOnlyWhenAbsent ==
    [][(tool = "drivers" /\ Len(issued') > Len(issued))
          => ~MapHas(job, issued'[Len(issued')])]_vars

\* two calls with one key were both waiting for their own new driver
C29_BothCreating ==
    \E c1, c2 \in Calls :
        /\ c1 # c2
        /\ pc[c1] = "connecting" /\ pc[c2] = "connecting"
        /\ input[c1].key = input[c2].key

(***************************************************************************)
(* config/manager.ts: getDatabaseConnection for the projects one server    *)
(* process serves.  Read for this specification, the variables hold        *)
(*   input    the projects (the database section of config.json and the    *)
(*            variables of .env) and the environment the server began with *)
(*   job      process.env                                                  *)
(*   issued   the calls made so far: project and what was resolved for it  *)
(*   result   what the last call returned                                  *)
(*   writes   the variables the last call has set in process.env           *)
(***************************************************************************)
MaxResolves == 3    \* getDatabaseConnection calls in one run of the server

Projects == {"A", "B"}

EnvNames == {"DATABASE_URL", "DB_HOST"}

\* the database section of config.json; "" is a field that is not set, -1 a
\* port that is not set
NoDatabaseConfig ==
    [url |-> "", envVar |-> "", host |-> "", port |-> -1, user |-> "", password |-> "",
     database |-> "", ssl |-> "", hostEnv |-> "", portEnv |-> "", userEnv |-> "",
     passwordEnv |-> "", databaseEnv |-> ""]

DatabaseConfigs ==
    { NoDatabaseConfig,
      [NoDatabaseConfig EXCEPT !.url = "postgres://direct/db"],
      [NoDatabaseConfig EXCEPT !.hostEnv = "DB_HOST", !.ssl = "require"],
      [NoDatabaseConfig EXCEPT !.host = "dbhost", !.port = 6543, !.envVar = "DB_HOST"] }

\* parseEnvFile(join(projectPath, '.env')): the value of each variable, "" for
\* a variable the file does not set
EnvFiles == [EnvNames -> {"", "file1", "file2"}]

StartEnvs == [EnvNames -> {"", "start"}]

InitConfig ==
    /\ tool = "config"
    /\ input \in [database : [Projects -> DatabaseConfigs], env : [Projects -> EnvFiles],
                  start : StartEnvs]
    /\ job = input.start
    /\ issued = << >>
    /\ result = NoResult
    /\ writes = << >>
    /\ pc = "ready"
    /\ sql = ""
    /\ allowedStatements = ALLOWED_PREFIXES
    /\ validation = NoResult
    /\ stmt = ""
    /\ connected = FALSE
    /\ file = NoFile

\* process.env[envKey], "" when envKey names no variable
EnvValue(env, envKey) == IF envKey \in DOMAIN env THEN env[envKey] ELSE ""

\* lines 82-90: for (const [key, value] of Object.entries(envVars))
\*                  process.env[key] = value
loadProjectEnv(env, envVars) ==
    [k \in DOMAIN env |-> IF envVars[k] # "" THEN envVars[k] ELSE env[k]]

\* lines 194-202
getVal(env, direct, envKey) ==
    IF direct # "" THEN direct
    ELSE IF envKey # "" /\ EnvValue(env, envKey) # "" THEN EnvValue(env, envKey)
    ELSE ""

\* lines 204-212; -1 is undefined
getNumVal(env, direct, envKey) ==
    IF direct # -1 THEN direct
    ELSE IF envKey # "" /\ EnvValue(env, envKey) # "" THEN parseInt(EnvValue(env, envKey))
    ELSE -1

\* lines 224-231
SslOf(ssl) ==
    IF ssl \in {"true", "require"} THEN "require"
    ELSE IF ssl \in {"no-verify", "allow"} THEN "rejectUnauthorized: false"
    ELSE IF ssl = "prefer" THEN "prefer"
    ELSE "false"

OrElse(value, default) == IF value # "" THEN value ELSE default

\* lines 214-262 under the given process.env
ConnectionOf(db, env) ==
    LET host == getVal(env, db.host, db.hostEnv)
        user == getVal(env, db.user, db.userEnv)
        password == getVal(env, db.password, db.passwordEnv)
        database == getVal(env, db.database, db.databaseEnv)
        port == getNumVal(env, db.port, db.portEnv)
        url == IF db.url # "" THEN db.url
               ELSE EnvValue(env, OrElse(db.envVar, "DATABASE_URL"))
    IN  IF host # "" \/ user # "" \/ password # "" \/ database # ""
        THEN [mode |-> "fields", host |-> OrElse(host, "localhost"),
              port |-> IF port \in {-1, 0} THEN 5432 ELSE port,
              user |-> OrElse(user, "postgres"), password |-> password,
              database |-> OrElse(database, "postgres"), ssl |-> SslOf(db.ssl)]
        ELSE IF url = "" THEN [mode |-> "throws", error |-> "Database connection not configured"]
        ELSE [mode |-> "url", url |-> url]

\* lines 186-262
getDatabaseConnectionCall(p) ==
    /\ tool = "config"
    /\ Len(issued) < MaxResolves
    /\ job' = loadProjectEnv(job, input.env[p])
    /\ writes' = {k \in DOMAIN job : job'[k] # job[k]}
    /\ result' = ConnectionOf(input.database[p], job')
    /\ issued' = Append(issued, [project |-> p, connection |-> result'])
    /\ UNCHANGED <<tool, pc, sql, allowedStatements, input, validation, stmt, connected, file>>

NextConfig == \E p \in Projects : getDatabaseConnectionCall(p)

SpecConfig == InitConfig /\ [][NextConfig]_vars

(***************************************************************************)
(* C30                                                                     *)
(***************************************************************************)
\* what the project's config.json, its .env and the environment the server
\* began with give, no other project having been resolved
ResolvedAlone(p) ==
    ConnectionOf(input.database[p], loadProjectEnv(input.start, input.env[p]))

\* C30: the connection resolved for a project is the one its own config.json,
\* its own .env and the server's starting environment give, whatever projects
\* were resolved before
C30_ProjectsIsolated ==
    tool = "config" =>
        \A i \in 1..Len(issued) : issued[i].connection = ResolvedAlone(issued[i].project)

\* the first call of a run resolves as alone, and so does every call for a
\* project whose .env sets each variable
C30_IsolatedWhenEnvComplete ==
    tool = "config" =>
        \A i \in 1..Len(issued) :
            (i = 1 \/ \A k \in EnvNames : input.env[issued[i].project][k] # "")
                => issued[i].connection = ResolvedAlone(issued[i].project)

\* project B has been given the DATABASE_URL of project A's .env
C30_Leaked ==
    /\ tool = "config"
    /\ Len(issued) = 2
    /\ issued[1].project = "A" /\ issued[2].project = "B"
    /\ input.env["B"]["DATABASE_URL"] = ""
    /\ issued[2].connection = [mode |-> "url", url |-> input.env["A"]["DATABASE_URL"]]
    /\ ResolvedAlone("B") = [mode |-> "url", url |-> "start"]

====
